---- MODULE Spec2Model ----
(***************************************************************************)
(* CartPilot backend: the chat turn (session store, orchestrator graph,    *)
(* requirement extraction), the wishlist, the price monitor, the           *)
(* notification manager and the TTL cache, as state machines.              *)
(*                                                                         *)
(* The specifications of the module:                                       *)
(*   SpecChat        chat turns over the in-memory session store           *)
(*   SpecMonitor     price checks, price alerts, retention sweep, clock    *)
(*   SpecWishlist    wishlist create / delete requests                     *)
(*   SpecCache       the in-memory TTL cache                               *)
(*   SpecRun         monitoring runs and the manual trigger                *)
(*   SpecSession     the session store under concurrent requests           *)
(*   SpecParser      the text parser on bounded texts                      *)
(*   SpecAgent       the mode agent functions                              *)
(*   SpecCachedAgent the mode agents behind the recommendation cache       *)
(*   SpecBundle      the bundle agent                                      *)
(*   SpecGateway     the catalog gateway's search under retry              *)
(*   SpecExtract     requirement extraction                                *)
(*   SpecOverlap     overlapping executions of the monitoring body         *)
(*   SpecRecheck     the periodic job over time, under fairness            *)
(* Every action leaves the variables of the other subsystems unchanged.    *)
(***************************************************************************)
EXTENDS Integers, Sequences, FiniteSets, TLC

VARIABLES
    \* ---- chat: app/services/session_store.py, app/api/chat.py
    sessions,      \* session id -> [exists, messages, turn_count]
    nextSid,       \* the next id create_session mints
    inflight,      \* chat requests past the append, awaiting the orchestrator
    nTurns,        \* chat requests accepted so far
    clarAsked,     \* session id -> clarification responses returned so far
    lastTurn,      \* what the last completed chat turn did
    \* ---- database and clock: app/models/user.py, app/models/wishlist.py
    now,           \* datetime.utcnow(), in hours
    users,         \* user id -> users row
    items,         \* item id -> wishlist_items row
    history,       \* the price_history table, in insertion order
    \* ---- price monitor and notification manager
    deliveries,    \* notifications a channel reported delivered, in order
    nOps,          \* database and monitor operations so far
    nChecks,       \* _check_item_price calls so far
    nAlerts,       \* send_price_alert calls so far
    lastCheck,     \* what the last _check_item_price call did
    lastAlert,     \* what the last send_price_alert call did
    \* ---- wishlist API: app/api/wishlist.py
    creates,       \* the add_to_wishlist requests so far, each with its position
    nDeletes,      \* remove_from_wishlist requests so far
    \* ---- TTL cache: app/services/cache.py
    cache,         \* InMemoryCache._cache: key -> [value, expires_at]
    clock,         \* datetime.utcnow() as the cache reads it, in seconds
    lastGet,       \* what the last get returned
    lastSetValue,  \* key -> the value of the last set for the key
    nGets,         \* get calls so far
    nCacheOps,     \* cache operations and clock advances so far
    \* ---- monitoring runs: app/services/price_monitor.py, scheduler.py, api/admin.py
    runs,          \* the check_all_wishlist_prices runs so far, each with its position
    triggers,      \* the manual trigger requests of the admin API so far
    \* ---- session store under concurrent requests: app/services/session_store.py
    sstore,        \* session id -> the SessionState object and whether _sessions holds it
    sclock,        \* datetime.utcnow() as the session store reads it, in minutes
    nTicks,        \* clock advances so far
    reqs,          \* the get_or_create_session callers so far, each with its position
    minted,        \* session ids create_session has minted so far
    \* ---- text parser: app/utils/text_parser.py
    words,         \* the words of the text given to the extractors
    budget,        \* what extract_budget returned for the text
    recipient,     \* what extract_recipient_info returned for the text
    \* ---- mode agents: app/agents/*_agent.py
    lastAgentRun,  \* what the last run of a mode agent function did
    nAgentRuns,    \* runs of mode agent functions so far
    \* ---- catalog gateway: app/services/naver_shopping.py
    gwAttempts,    \* the HTTP answers of the attempts of the current search call
    gwResult,      \* how the current search call stands: its position and its error
    nSearches,     \* search calls so far
    gwCall,        \* the arguments of the current search call and what it asks upstream
    gwReturn,      \* the items the upstream answered and the items search returned
    \* ---- requirement extraction: app/agents/requirement_extractor.py
    lastExtract,   \* what the last run of extract_requirements was given and returned
    \* ---- bundle agent: app/agents/bundle_agent.py
    lastBundle,    \* what the last run of bundle_agent was given and what it built
    \* ---- overlapping monitoring executions: app/services/price_monitor.py
    execs,         \* origin -> the execution's position and its session's copy of the item
    \* ---- the periodic job and its surroundings: app/services/scheduler.py
    catalog,       \* the price the catalog answers for the item
    channelUp,     \* whether the notification channels deliver
    sweeps         \* scheduled monitoring runs so far, modulo 2

chatVars == <<sessions, nextSid, inflight, nTurns, clarAsked, lastTurn>>
dbVars == <<now, users, items, history>>
monVars == <<deliveries, nOps, nChecks, nAlerts, lastCheck, lastAlert>>

wlVars == <<creates, nDeletes>>
cacheVars == <<cache, clock, lastGet, lastSetValue, nGets, nCacheOps>>

runVars == <<runs, triggers>>

sessVars == <<sstore, sclock, nTicks, reqs, minted>>

parseVars == <<words, budget, recipient>>

agentVars == <<lastAgentRun, nAgentRuns>>

gwVars == <<gwAttempts, gwResult, nSearches, gwCall, gwReturn>>

extractVars == <<lastExtract>>

bundleVars == <<lastBundle>>

execVars == <<execs>>

worldVars == <<catalog, channelUp, sweeps>>

vars == <<chatVars, dbVars, monVars, wlVars, cacheVars, runVars, sessVars, parseVars, agentVars, gwVars, extractVars, bundleVars, execVars, worldVars>>

\* None / null of an optional integer field.
NULL == 0 - 1

------------------------------------------------------------------------------
(* Bounds *)

MaxTurns == 3          \* chat requests per behaviour
MaxInflight == 2       \* chat requests awaiting the orchestrator at once
MaxOps == 3            \* database and monitor operations per behaviour
MaxPrice == 3          \* prices run over 1..MaxPrice
MaxCreates == 2        \* add_to_wishlist requests per behaviour
MaxDeletes == 1        \* remove_from_wishlist requests per behaviour
MaxCacheOps == 4       \* cache operations and clock advances per behaviour
MaxRuns == 1           \* check_all_wishlist_prices runs per behaviour
MaxTriggers == 1       \* manual trigger requests per behaviour
MaxReqs == 3           \* get_or_create_session callers per behaviour
MaxTicks == 1          \* advances of the session store's clock per behaviour
MaxWords == 3          \* words of a text given to the extractors
MaxQueries == 1        \* search queries of a mode agent run
MaxAgentRuns == 2      \* mode agent runs per behaviour
MaxAgentTicks == 1     \* clock advances between mode agent runs per behaviour
MaxSearches == 1       \* gateway search calls per behaviour
MaxDisplay == 1        \* the small display arguments of a search call run over 1..MaxDisplay
MaxItems == 2          \* items of one upstream answer
MaxCombos == 2         \* combinations of a model reply to the bundle agent
MaxItemCount == 2      \* items the parser finds in a text run over 0..MaxItemCount
MaxExecs == 2          \* monitoring executions that overlap
MaxHistory == 3        \* price_history rows after which the catalog price stays
MaxDays == 1           \* days the periodic job is followed over

------------------------------------------------------------------------------
(* Chat: messages and what the text parser finds in them *)

\* The user texts of the model: one carrying only a budget ("5만원"), one only a
\* recipient relation ("친구"), one a relation, a budget and two items
\* ("친구 선물 노트북+마우스 10만원").
Messages == {"budget", "relation", "full"}

Intents == {"GIFT", "VALUE", "BUNDLE", "REVIEW", "TREND"}

\* The outcome of the intent-classification model call: an intent, a reply whose
\* intent is no IntentType, or an exception.
LlmOutcomes == Intents \cup {"UNKNOWN", "raise"}

\* " ".join(all_user_texts): the context is the texts in order.
FullContext(stateMessages, rawQuery) ==
    IF stateMessages # <<>> THEN stateMessages ELSE <<rawQuery>>

\* What the rule-based extractors find in one text.
MsgHasBudget(m) == m \in {"budget", "full"}
MsgItemCount(m) == IF m = "full" THEN 2 ELSE 0
MsgHasRelation(m) == m \in {"relation", "full"}

\* parse_user_input(full_context) -> (budget, items, recipient): the extractors
\* run over the joined text, so each finds what any of the joined texts holds.
parse_user_input(ctx) ==
    [ budget    |-> IF \E k \in 1..Len(ctx) : MsgHasBudget(ctx[k])
                    THEN "total" ELSE "none",
      nitems    |-> IF \E k \in 1..Len(ctx) : MsgItemCount(ctx[k]) = 2
                    THEN 2 ELSE 0,
      recipient |-> IF \E k \in 1..Len(ctx) : MsgHasRelation(ctx[k])
                    THEN "rel" ELSE "none" ]

\* Requirements(...): clarify_count is not passed, so it takes its default.
ClarifyCountDefault == 0

NewRequirements(parsed) ==
    [ budget |-> parsed.budget, nitems |-> parsed.nitems,
      recipient |-> parsed.recipient, clarify_count |-> ClarifyCountDefault ]

\* get_missing_fields(requirements, intent_str)
get_missing_fields(r, intent) ==
    CASE intent = "GIFT" ->
            (IF r.recipient = "none" THEN <<"recipient">>
             ELSE IF r.recipient = "norel" THEN <<"recipient.relation">>
             ELSE <<>>)
            \o (IF r.budget = "none" THEN <<"budget">> ELSE <<>>)
      [] intent = "VALUE" ->
            IF r.nitems = 0 THEN <<"items">> ELSE <<>>
      [] intent = "BUNDLE" ->
            (IF r.nitems < 2 THEN <<"items">> ELSE <<>>)
            \o (IF r.budget # "total" THEN <<"budget.total_budget">> ELSE <<>>)
      [] intent = "REVIEW" ->
            IF r.nitems = 0 THEN <<"items">> ELSE <<>>
      [] OTHER -> <<>>

\* clarification_needed = len(missing_fields) > 0 and requirements.clarify_count < 2
ClarifyLimit == 2

ClarificationNeeded(missing, r) ==
    Len(missing) > 0 /\ r.clarify_count < ClarifyLimit

\* A routing that sends every intent to the gift agent.
route_by_intent_AllToGift(intent) == "gift_agent"

\* should_clarify / route_by_intent: the terminal node of the run.
route_by_intent(intent) ==
    CASE intent = "GIFT" -> "gift_agent"
      [] intent = "VALUE" -> "value_agent"
      [] intent = "BUNDLE" -> "bundle_agent"
      [] intent = "REVIEW" -> "review_agent"
      [] intent = "TREND" -> "trend_agent"
      [] OTHER -> "value_agent"

\* classify_intent: the model's intent with the confidence it reported, VALUE at
\* 0.5 when the reply names no IntentType, VALUE at 0.3 with an error on any
\* exception (a failed model call, a reply json.loads cannot parse).
classify_intent(llm) ==
    IF llm = "raise"
    THEN [intent |-> "VALUE", intent_confidence |-> "0.3", error |-> TRUE]
    ELSE IF llm \notin Intents
    THEN [intent |-> "VALUE", intent_confidence |-> "0.5", error |-> FALSE]
    ELSE [intent |-> llm, intent_confidence |-> "reported", error |-> FALSE]

\* A should_clarify that never asks.
should_clarify_Never(clarification_needed) == "route_to_agent"

\* should_clarify: the branch taken after extract_requirements.
should_clarify(clarification_needed) ==
    IF clarification_needed THEN "clarify" ELSE "route_to_agent"

\* The nodes a run of the compiled graph executes, in order: the entry point
\* classify_intent, extract_requirements, then clarify, or the pass-through
\* route_by_intent and the agent node it selects; each of these ends the run.
GraphPath(clarification_needed, intent) ==
    <<"classify_intent", "extract_requirements">>
    \o (IF should_clarify(clarification_needed) = "clarify" THEN <<"clarify">>
        ELSE <<"route_by_intent", route_by_intent(intent)>>)

\* The graph is compiled without a checkpointer: a run starts from the
\* initial_state of the request alone, messages = [HumanMessage(request.message)].
InitialStateMessages(sessionMessages, msg) == <<msg>>

\* One orchestrator run and the response send_chat_message builds from it.
\* agentOk: whether gift_agent built a recommendation (the other four nodes are
\* placeholder_agent, which always reports an error).
RunTurn(sid, turn, msg, sessionMessages, llm, agentOk) ==
    LET stateMessages == InitialStateMessages(sessionMessages, msg)
        ctx      == FullContext(stateMessages, msg)
        cls      == classify_intent(llm)
        r        == NewRequirements(parse_user_input(ctx))
        missing  == get_missing_fields(r, cls.intent)
        clarify  == ClarificationNeeded(missing, r)
        path     == GraphPath(clarify, cls.intent)
        node     == path[Len(path)]
        recs     == node = "gift_agent" /\ agentOk
        error    == cls.error \/ (node \notin {"clarify", "gift_agent"})
                              \/ (node = "gift_agent" /\ ~agentOk)
    IN  [ sid |-> sid,
          turn |-> turn,
          type |-> IF clarify THEN "clarification"
                   ELSE IF error THEN "error" ELSE "recommendation",
          field |-> IF clarify THEN missing[1] ELSE "none",
          intent |-> cls.intent,
          intent_confidence |-> cls.intent_confidence,
          classify_error |-> cls.error,
          llm |-> llm,
          clarification_needed |-> clarify,
          path |-> path,
          node |-> node,
          clarify_count |-> r.clarify_count,
          recommendations |-> recs,
          error |-> error,
          context |-> ctx ]

------------------------------------------------------------------------------
(* Chat: the session store and the request handler *)

\* Every request may mint a session, so ids run up to the number of requests.
SessionIds == 1..MaxTurns

NoSession == [exists |-> FALSE, messages |-> <<>>, turn_count |-> 0]
NoTurn == [ sid |-> 0, turn |-> 0, type |-> "none", field |-> "none", intent |-> "VALUE",
            intent_confidence |-> "none",
            classify_error |-> FALSE, llm |-> "none",
            clarification_needed |-> FALSE, path |-> <<>>,
            node |-> "none", clarify_count |-> 0,
            recommendations |-> FALSE, error |-> FALSE,
            context |-> <<>> ]

InitChat ==
    /\ sessions = [s \in SessionIds |-> NoSession]
    /\ nextSid = 1
    /\ inflight = {}
    /\ nTurns = 0
    /\ clarAsked = [s \in SessionIds |-> 0]
    /\ lastTurn = NoTurn

\* get_or_create_session(session_id): the looked-up session when it is stored,
\* else a new one under a fresh id. given = 0 stands for no session id.
GetOrCreateSid(given) ==
    IF given \in SessionIds /\ sessions[given].exists THEN given ELSE nextSid

\* send_chat_message up to the orchestrator call: get_or_create_session, then
\* session.add_user_message(request.message).
ChatAppend(given, msg) ==
    LET sid == GetOrCreateSid(given) IN
    /\ nTurns < MaxTurns
    /\ Cardinality(inflight) < MaxInflight
    /\ sid \in SessionIds
    /\ sessions' = [sessions EXCEPT ![sid] =
                      [ exists |-> TRUE,
                        messages |-> Append(sessions[sid].messages, msg),
                        turn_count |-> sessions[sid].turn_count + 1 ]]
    /\ nextSid' = IF sid = nextSid THEN nextSid + 1 ELSE nextSid
    /\ nTurns' = nTurns + 1
    /\ inflight' = inflight \cup
          {[sid |-> sid, turn |-> sessions[sid].turn_count + 1, msg |-> msg]}
    /\ UNCHANGED <<clarAsked, lastTurn, dbVars, monVars, wlVars, cacheVars, runVars, sessVars, parseVars, agentVars, gwVars, extractVars, bundleVars, execVars, worldVars>>

\* send_chat_message from orchestrator.ainvoke to the returned ChatResponse.
ChatRespond(q, llm, agentOk) ==
    LET t == RunTurn(q.sid, q.turn, q.msg, sessions[q.sid].messages,
                     llm, agentOk) IN
    /\ q \in inflight
    /\ lastTurn' = t
    /\ clarAsked' = [clarAsked EXCEPT ![t.sid] =
                       IF t.type = "clarification" THEN @ + 1 ELSE @]
    /\ inflight' = inflight \ {q}
    /\ UNCHANGED <<sessions, nextSid, nTurns, dbVars, monVars, wlVars, cacheVars, runVars, sessVars, parseVars, agentVars, gwVars, extractVars, bundleVars, execVars, worldVars>>

NextChat ==
    \/ \E given \in {0} \cup {s \in SessionIds : sessions[s].exists},
          msg \in Messages :
          ChatAppend(given, msg)
    \/ \E q \in inflight, llm \in LlmOutcomes, agentOk \in BOOLEAN :
          ChatRespond(q, llm, agentOk)

------------------------------------------------------------------------------
(* Chat: claims *)

\* C1: over any sequence of chat turns in one session clarify_count stays within
\* 0..2 and at most two clarification responses are returned; a later turn whose
\* required fields are still missing is routed to an agent or answered with an
\* error, never with a third clarification question.
C1_AtMostTwoClarifications ==
    /\ lastTurn.clarify_count \in 0..ClarifyLimit
    /\ \A s \in SessionIds : clarAsked[s] <= ClarifyLimit

\* C2: on the n-th turn of a session the text handed to the analysis step is
\* built from the user messages of all turns 1..n of that session.
C2_AnalysisSeesAllTurns ==
    lastTurn.type # "none" =>
        lastTurn.context =
            SubSeq(sessions[lastTurn.sid].messages, 1, lastTurn.turn)

\* The mode agent nodes of the graph.
AgentNodes ==
    {"gift_agent", "value_agent", "bundle_agent", "review_agent", "trend_agent"}

C23_AnalysisFailureAsksForItems ==
    lastTurn.llm = "raise" =>
        /\ lastTurn.type = "clarification"
        /\ lastTurn.intent = "VALUE"
        /\ lastTurn.intent_confidence = "0.3"
        /\ lastTurn.field = "items"
        /\ \A k \in 1..Len(lastTurn.path) : lastTurn.path[k] \notin AgentNodes

\* C11: in the final state of every orchestrator run in which a mode agent
\* node executed exactly one of recommendations and error is non-null, also when
\* intent classification recorded an error before the agent ran.
C11_RecommendationsXorError ==
    lastTurn.node \in AgentNodes =>
        /\ lastTurn.recommendations => ~lastTurn.error
        /\ ~lastTurn.error => lastTurn.recommendations

\* Intent classification failed, the run went on to an agent node and ended with
\* an error and no recommendations.
C11_Witness ==
    /\ lastTurn.classify_error
    /\ lastTurn.node \in AgentNodes
    /\ lastTurn.error
    /\ ~lastTurn.recommendations

------------------------------------------------------------------------------
(* Database rows and the clock *)

\* Time is counted in hours.
Days(n) == n * 24

\* MIN_NOTIFICATION_INTERVAL = timedelta(hours=24)
MIN_NOTIFICATION_INTERVAL == 24
\* ninety_days_ago = utcnow() - timedelta(days=90)
LOWEST_WINDOW_DAYS == 90
\* cutoff_date = utcnow() - timedelta(days=180)
RETENTION_DAYS == 180
\* "관심상품은 최대 20개까지": len(rows of the user) >= 20 rejects the create
MAX_WISHLIST_ITEMS == 20

UserIds == {"u1", "u2"}
Prices == 1..MaxPrice

\* WishlistItem(user_id, product_id, current_price, target_price, ...): the row
\* as add_to_wishlist constructs it; lowest_price_90days and last_notified_at
\* are not passed and stay NULL, notification_enabled takes its default.
NewWishlistItem(u, product, price, target) ==
    [ user |-> u, product |-> product, current_price |-> price,
      target_price |-> target, lowest_price_90days |-> NULL,
      notification_enabled |-> TRUE, last_notified_at |-> NULL ]

\* The users rows of the model: notification opt-ins, token, addresses, is_active.
UserRow(active, kakaoOn, token, emailOn, notifEmail, email) ==
    [ is_active |-> active, kakao_notification_enabled |-> kakaoOn,
      kakao_access_token |-> token, email_notification_enabled |-> emailOn,
      notification_email |-> notifEmail, email |-> email ]

UserProfiles ==
    { UserRow(TRUE, TRUE, TRUE, TRUE, TRUE, TRUE),      \* both channels, both addresses
      UserRow(TRUE, TRUE, FALSE, TRUE, TRUE, FALSE),    \* opted in, no token
      UserRow(TRUE, TRUE, TRUE, FALSE, FALSE, TRUE),    \* messenger only
      UserRow(TRUE, FALSE, TRUE, TRUE, FALSE, FALSE),   \* no eligible channel
      UserRow(FALSE, TRUE, TRUE, TRUE, FALSE, TRUE) }   \* inactive account

\* The price the wishlist row of the monitor's initial database carries.
InitPrice == MaxPrice - 1

\* The monitor's initial database: user u1 with one wishlist row and the one
\* price_history row a creation records for it, at time 0.
InitDb ==
    /\ now = 0
    /\ \E prof \in UserProfiles :
          users = [u \in UserIds |-> prof]
    /\ items = [i \in {1} |-> NewWishlistItem("u1", i, InitPrice, NULL)]
    /\ history = << [item |-> 1, price |-> InitPrice, recorded_at |-> 0] >>

\* The database of a specification that does not use it.
IdleDb ==
    /\ now = 0
    /\ users = [u \in UserIds |-> UserRow(TRUE, TRUE, TRUE, TRUE, FALSE, TRUE)]
    /\ items = [i \in {} |-> NULL]
    /\ history = <<>>

NoCheck ==
    [ item |-> 0, outcome |-> "none", price |-> NULL, updated |-> FALSE,
      invoked |-> FALSE, alert_sent |-> FALSE ]
NoAlert ==
    [ item |-> 0, skipped |-> FALSE, kakao |-> "not_attempted",
      email |-> "not_attempted", to_email |-> "none", success |-> FALSE ]

IdleMon ==
    /\ deliveries = <<>>
    /\ nOps = 0
    /\ nChecks = 0
    /\ nAlerts = 0
    /\ lastCheck = NoCheck
    /\ lastAlert = NoAlert

\* The passage of time between operations.
TickSteps ==
    {MIN_NOTIFICATION_INTERVAL - 1, MIN_NOTIFICATION_INTERVAL,
     Days(LOWEST_WINDOW_DAYS) + 1}

Tick(d) ==
    /\ nOps < MaxOps
    /\ now' = now + d
    /\ nOps' = nOps + 1
    /\ UNCHANGED <<users, items, history, deliveries, nChecks, nAlerts,
                   lastCheck, lastAlert, chatVars, wlVars, cacheVars, runVars, sessVars, parseVars, agentVars, gwVars, extractVars, bundleVars, execVars, worldVars>>

------------------------------------------------------------------------------
(* Notification manager *)

\* What a channel's send_price_alert does: returns True, returns False, raises.
ChannelResults == {"ok", "fail", "raise"}

\* _should_send_notification without the test of last_notified_at.
should_send_notification_NoCooldown(item, t) == item.notification_enabled

\* NotificationManager._should_send_notification
should_send_notification(item, t) ==
    IF ~item.notification_enabled THEN FALSE
    ELSE IF item.last_notified_at # NULL
            /\ t - item.last_notified_at < MIN_NOTIFICATION_INTERVAL THEN FALSE
    ELSE TRUE

\* email = user.notification_email or user.email: the column the address is
\* taken from, "none" when both are empty.
AlertAddress(user) ==
    IF user.notification_email THEN "notification_email"
    ELSE IF user.email THEN "email" ELSE "none"

\* send_price_alert attempting the email channel whatever the messenger did.
send_price_alert_EmailAlways(user, item, t, kres, eres) ==
    IF ~should_send_notification(item, t)
    THEN [ item |-> item, skipped |-> TRUE, kakao |-> "not_attempted",
           email |-> "not_attempted", to_email |-> "none", success |-> FALSE ]
    ELSE
      LET kTry  == user.kakao_notification_enabled /\ user.kakao_access_token
          kSucc == kTry /\ kres = "ok"
          eTry  == user.email_notification_enabled /\ AlertAddress(user) # "none"
          eSucc == eTry /\ eres = "ok"
          success == kSucc \/ eSucc
      IN  [ item |-> IF success THEN [item EXCEPT !.last_notified_at = t]
                     ELSE item,
            skipped |-> FALSE,
            kakao |-> IF kTry THEN kres ELSE "not_attempted",
            email |-> IF eTry THEN eres ELSE "not_attempted",
            to_email |-> IF eTry THEN AlertAddress(user) ELSE "none",
            success |-> success ]

\* send_price_alert writing last_notified_at whether or not a channel succeeded.
send_price_alert_AlwaysStamp(user, item, t, kres, eres) ==
    IF ~should_send_notification(item, t)
    THEN [ item |-> item, skipped |-> TRUE, kakao |-> "not_attempted",
           email |-> "not_attempted", to_email |-> "none", success |-> FALSE ]
    ELSE
      LET kTry  == user.kakao_notification_enabled /\ user.kakao_access_token
          kSucc == kTry /\ kres = "ok"
          eTry  == ~kSucc /\ user.email_notification_enabled
                          /\ AlertAddress(user) # "none"
          eSucc == eTry /\ eres = "ok"
      IN  [ item |-> [item EXCEPT !.last_notified_at = t],
            skipped |-> FALSE,
            kakao |-> IF kTry THEN kres ELSE "not_attempted",
            email |-> IF eTry THEN eres ELSE "not_attempted",
            to_email |-> IF eTry THEN AlertAddress(user) ELSE "none",
            success |-> kSucc \/ eSucc ]

\* NotificationManager.send_price_alert(db, user, wishlist_item, ...): the
\* channels attempted, the result, and the item as the call leaves it.
send_price_alert(user, item, t, kres, eres) ==
    IF ~should_send_notification(item, t)
    THEN [ item |-> item, skipped |-> TRUE, kakao |-> "not_attempted",
           email |-> "not_attempted", to_email |-> "none", success |-> FALSE ]
    ELSE
      LET kTry  == user.kakao_notification_enabled /\ user.kakao_access_token
          kSucc == kTry /\ kres = "ok"
          eTry  == ~kSucc /\ user.email_notification_enabled
                          /\ AlertAddress(user) # "none"
          eSucc == eTry /\ eres = "ok"
          success == kSucc \/ eSucc
      IN  [ item |-> IF success THEN [item EXCEPT !.last_notified_at = t]
                     ELSE item,
            skipped |-> FALSE,
            kakao |-> IF kTry THEN kres ELSE "not_attempted",
            email |-> IF eTry THEN eres ELSE "not_attempted",
            to_email |-> IF eTry THEN AlertAddress(user) ELSE "none",
            success |-> success ]

\* The deliveries log after a send_price_alert call with result r for item i.
Delivered(log, i, t, r) ==
    IF r.kakao = "ok" THEN Append(log, [item |-> i, at |-> t, channel |-> "kakao"])
    ELSE IF r.email = "ok"
         THEN Append(log, [item |-> i, at |-> t, channel |-> "email"])
    ELSE log

AlertRecord(i, r) ==
    [ item |-> i, skipped |-> r.skipped, kakao |-> r.kakao, email |-> r.email,
      to_email |-> r.to_email, success |-> r.success ]

\* One send_price_alert call for a stored item and its owner, as
\* send_bulk_price_alerts makes for each alert of its list.
SendAlert(i, kres, eres) ==
    LET r == send_price_alert(users[items[i].user], items[i], now, kres, eres) IN
    /\ i \in DOMAIN items
    /\ nOps < MaxOps
    /\ items' = [items EXCEPT ![i] = r.item]
    /\ deliveries' = Delivered(deliveries, i, now, r)
    /\ lastAlert' = AlertRecord(i, r)
    /\ nAlerts' = nAlerts + 1
    /\ nOps' = nOps + 1
    /\ UNCHANGED <<now, users, history, nChecks, lastCheck,
                   chatVars, wlVars, cacheVars, runVars, sessVars, parseVars, agentVars, gwVars, extractVars, bundleVars, execVars, worldVars>>

------------------------------------------------------------------------------
(* Price monitor *)

\* What naver_client.search gives a price check: a NaverShoppingError, another
\* exception, no items, or the price of the first item.
SearchOutcomes ==
    { [kind |-> k, price |-> NULL] : k \in {"gateway_error", "other_error", "empty"} }
    \cup { [kind |-> "items", price |-> p] : p \in Prices }

SetMin(S) == CHOOSE x \in S : \A y \in S : x <= y

\* PriceMonitorService._calculate_lowest_90days
calculate_lowest_90days(hist, i, current_price, t) ==
    LET ninety_days_ago == t - Days(LOWEST_WINDOW_DAYS)
        prices == { hist[k].price : k \in
                      { k \in 1..Len(hist) :
                          /\ hist[k].item = i
                          /\ hist[k].recorded_at >= ninety_days_ago } }
    IN  IF prices # {}
        THEN (IF SetMin(prices) <= current_price THEN SetMin(prices)
              ELSE current_price)
        ELSE current_price

\* _should_send_alert with strict comparisons.
should_send_alert_Strict(item, current_price, lowest_90days) ==
    \/ current_price < lowest_90days
    \/ item.target_price # NULL /\ current_price < item.target_price

\* PriceMonitorService._should_send_alert
should_send_alert(item, current_price, lowest_90days) ==
    IF current_price <= lowest_90days THEN TRUE
    ELSE IF item.target_price # NULL /\ current_price <= item.target_price
         THEN TRUE
    ELSE FALSE

\* A check that treats every price found as a change.
PriceChanged_Always(item, current_price) == TRUE

\* Whether the price found is treated as a change of the stored price.
PriceChanged(item, current_price) == current_price # item.current_price

\* PriceMonitorService._check_item_price for item i: the item as the call leaves
\* it, the price_history rows it adds, whether it invoked the dispatcher and the
\* dispatcher's answer.
check_item_price(i, item, hist, user, t, search, kres, eres) ==
    LET same == [ item |-> item, rows |-> <<>>, updated |-> FALSE,
                  invoked |-> FALSE, alert |-> NoAlert, alert_sent |-> FALSE ]
    IN
    IF search.kind # "items" THEN same
    ELSE IF ~PriceChanged(item, search.price) THEN same
    ELSE
      LET current_price == search.price
          row      == [item |-> i, price |-> current_price, recorded_at |-> t]
          lowest   == calculate_lowest_90days(hist, i, current_price, t)
          item1    == [item EXCEPT !.current_price = current_price,
                                   !.lowest_price_90days = lowest]
          invoke   == should_send_alert(item1, current_price, lowest)
                      /\ user.is_active
          r        == send_price_alert(user, item1, t, kres, eres)
      IN  [ item |-> IF invoke THEN r.item ELSE item1,
            rows |-> <<row>>,
            updated |-> TRUE,
            invoked |-> invoke,
            alert |-> IF invoke THEN r ELSE NoAlert,
            alert_sent |-> invoke /\ r.success ]

\* One price check of a stored item: check_single_product, or one iteration of
\* check_all_wishlist_prices.
CheckOne(i, search, kres, eres) ==
    LET c == check_item_price(i, items[i], history, users[items[i].user], now,
                              search, kres, eres) IN
    /\ i \in DOMAIN items
    /\ nOps < MaxOps
    /\ items' = [items EXCEPT ![i] = c.item]
    /\ history' = history \o c.rows
    /\ deliveries' = IF c.invoked THEN Delivered(deliveries, i, now, c.alert)
                     ELSE deliveries
    /\ lastAlert' = IF c.invoked THEN AlertRecord(i, c.alert) ELSE lastAlert
    /\ nAlerts' = IF c.invoked THEN nAlerts + 1 ELSE nAlerts
    /\ lastCheck' = [ item |-> i,
                      outcome |-> search.kind, price |-> search.price,
                      updated |-> c.updated, invoked |-> c.invoked,
                      alert_sent |-> c.alert_sent ]
    /\ nChecks' = nChecks + 1
    /\ nOps' = nOps + 1
    /\ UNCHANGED <<now, users, chatVars, wlVars, cacheVars, runVars, sessVars, parseVars, agentVars, gwVars, extractVars, bundleVars, execVars, worldVars>>

\* SchedulerService._cleanup_old_price_history: the retention sweep.
CleanupOldPriceHistory ==
    LET cutoff_date == now - Days(RETENTION_DAYS)
        Keep(h) == ~(h.recorded_at < cutoff_date)
    IN
    /\ nOps < MaxOps
    /\ history' = SelectSeq(history, Keep)
    /\ nOps' = nOps + 1
    /\ UNCHANGED <<now, users, items, deliveries, nChecks, nAlerts, lastCheck,
                   lastAlert, chatVars, wlVars, cacheVars, runVars, sessVars, parseVars, agentVars, gwVars, extractVars, bundleVars, execVars, worldVars>>

\* update_wishlist_item: target_price and notification_enabled, each only when
\* the request carries it (NULL / "keep": not carried).
UpdateWishlistItem(i, target, enabled) ==
    /\ i \in DOMAIN items
    /\ nOps < MaxOps
    /\ items' = [items EXCEPT
                   ![i].target_price = IF target # NULL THEN target ELSE @,
                   ![i].notification_enabled =
                        IF enabled # "keep" THEN enabled = "on" ELSE @]
    /\ nOps' = nOps + 1
    /\ UNCHANGED <<now, users, history, deliveries, nChecks, nAlerts,
                   lastCheck, lastAlert, chatVars, wlVars, cacheVars, runVars, sessVars, parseVars, agentVars, gwVars, extractVars, bundleVars, execVars, worldVars>>

StoredItems == DOMAIN items

NextMonitor ==
    \/ \E d \in TickSteps : Tick(d)
    \/ \E i \in StoredItems, search \in SearchOutcomes,
          kres \in ChannelResults, eres \in ChannelResults :
          CheckOne(i, search, kres, eres)
    \/ \E i \in StoredItems, kres \in ChannelResults, eres \in ChannelResults :
          SendAlert(i, kres, eres)
    \/ \E i \in StoredItems, target \in {NULL} \cup Prices,
          enabled \in {"keep", "on", "off"} :
          UpdateWishlistItem(i, target, enabled)
    \/ CleanupOldPriceHistory

------------------------------------------------------------------------------
(* Claims about the notification manager and the price monitor *)

\* C3: send_price_alert calls made one after another for one wishlist item
\* never deliver two notifications less than 24 hours apart: a call made while
\* notification_enabled is false or less than 24 h after last_notified_at
\* returns false, attempts neither channel and delivers nothing.
C3_CooldownStep ==
    nAlerts' = nAlerts + 1 =>
        LET i == lastAlert'.item
            blocked ==
                \/ ~items[i].notification_enabled
                \/ /\ items[i].last_notified_at # NULL
                   /\ now - items[i].last_notified_at < MIN_NOTIFICATION_INTERVAL
        IN  /\ blocked =>
                /\ lastAlert'.kakao = "not_attempted"
                /\ lastAlert'.email = "not_attempted"
                /\ ~lastAlert'.success
                /\ deliveries' = deliveries
            /\ Len(deliveries') > Len(deliveries) =>
                \A k \in 1..Len(deliveries) :
                    deliveries[k].item = i =>
                        now - deliveries[k].at >= MIN_NOTIFICATION_INTERVAL
C3_NoTwoAlertsWithin24h == [][C3_CooldownStep]_vars

\* A call made 23 h after a delivery, by an owner whose messenger channel is
\* eligible, attempted nothing.
C3_Witness ==
    /\ nAlerts >= 2
    /\ Len(deliveries) = 1
    /\ lastAlert.item = 1
    /\ lastAlert.kakao = "not_attempted"
    /\ lastAlert.email = "not_attempted"
    /\ items[1].notification_enabled
    /\ users[items[1].user].kakao_notification_enabled
    /\ users[items[1].user].kakao_access_token
    /\ now - deliveries[1].at = MIN_NOTIFICATION_INTERVAL - 1

\* C4: send_price_alert changes last_notified_at iff a channel reported
\* success: then it becomes the current time and the result is true; otherwise
\* (skipped, both channels failed, raised or ineligible) it is unchanged and the
\* result is false.
C4_StampStep ==
    nAlerts' = nAlerts + 1 =>
        LET i == lastAlert'.item
            succeeded == lastAlert'.kakao = "ok" \/ lastAlert'.email = "ok"
        IN  /\ lastAlert'.success <=> succeeded
            /\ succeeded => items'[i].last_notified_at = now
            /\ ~succeeded => items'[i].last_notified_at = items[i].last_notified_at
            /\ (items'[i].last_notified_at # items[i].last_notified_at) <=> succeeded
C4_StampIffChannelSucceeded == [][C4_StampStep]_vars

\* The messenger raised, the email fallback succeeded, the item was stamped.
C4_Witness ==
    /\ nAlerts >= 1
    /\ lastAlert.item = 1
    /\ lastAlert.kakao = "raise"
    /\ lastAlert.email = "ok"
    /\ lastAlert.success
    /\ items[1].last_notified_at = now

\* C24: within one send_price_alert call that is not skipped the messenger
\* channel is attempted only when the user's messenger opt-in is on and an
\* access token is present; the email channel is attempted only if the messenger
\* attempt was not made or did not succeed (it returned False or raised), and
\* only if the email opt-in is on and an address exists, notification_email
\* being taken before email. Email is never sent after a messenger success, so
\* at most one channel delivers the alert and the call adds at most one
\* delivery.
C24_AlertStep ==
    nAlerts' = nAlerts + 1 =>
        LET a == lastAlert'
            user == users[items[a.item].user]
        IN
        /\ a.kakao # "not_attempted" =>
              user.kakao_notification_enabled /\ user.kakao_access_token
        /\ a.email # "not_attempted" =>
              /\ a.kakao \in {"not_attempted", "fail", "raise"}
              /\ user.email_notification_enabled
              /\ user.notification_email \/ user.email
              /\ a.to_email = (IF user.notification_email THEN "notification_email"
                               ELSE "email")
        /\ a.kakao = "ok" => a.email = "not_attempted"
        /\ ~(a.kakao = "ok" /\ a.email = "ok")
        /\ Len(deliveries') <= Len(deliveries) + 1
        /\ a.skipped => a.kakao = "not_attempted" /\ a.email = "not_attempted"

C24_MessengerFirstEmailFallback == [][C24_AlertStep]_vars

\* A call in which the messenger attempt returned False and the email fallback
\* delivered to the notification address.
C24_Witness ==
    /\ lastAlert.item = 1
    /\ lastAlert.kakao = "fail"
    /\ lastAlert.email = "ok"
    /\ lastAlert.to_email = "notification_email"
    /\ Len(deliveries) = 1

\* C5: in every reachable state the lowest_price_90days of an item (once a
\* price check has set it) is the minimum of the item's price_history rows
\* recorded within the last 90 days together with its current_price.
C5_LowestIsWindowMin ==
    \A i \in DOMAIN items :
        items[i].lowest_price_90days # NULL =>
            LET window == { history[k].price : k \in
                              { k \in 1..Len(history) :
                                  /\ history[k].item = i
                                  /\ now - history[k].recorded_at
                                        <= Days(LOWEST_WINDOW_DAYS) } }
                cands == window \cup {items[i].current_price}
            IN  /\ items[i].lowest_price_90days \in cands
                /\ \A x \in cands : items[i].lowest_price_90days <= x

\* C6: a price check whose first result has a price different from the stored
\* current_price appends exactly one price_history row with that price and sets
\* current_price to it; a check with no results, the same price or a catalog
\* error appends no row and leaves current_price and lowest_price_90days as
\* they were.
C6_CheckStep ==
    nChecks' = nChecks + 1 =>
        LET i == lastCheck'.item
            p == lastCheck'.price
        IN  IF lastCheck'.outcome = "items" /\ p # items[i].current_price
            THEN /\ history' = Append(history,
                        [item |-> i, price |-> p, recorded_at |-> now])
                 /\ items'[i].current_price = p
            ELSE /\ history' = history
                 /\ items'[i].current_price = items[i].current_price
                 /\ items'[i].lowest_price_90days = items[i].lowest_price_90days
C6_OneRowPerChangedPrice == [][C6_CheckStep]_vars

\* A check found a new price and the history grew from one row to two.
C6_Witness ==
    /\ nChecks = 1
    /\ lastCheck.outcome = "items"
    /\ lastCheck.price # InitPrice
    /\ Len(history) = 2
    /\ history[2].price = lastCheck.price
    /\ items[1].current_price = lastCheck.price

\* C7 as stated: every price check that obtains a reference price, whether or
\* not it differs from the stored one, invokes the dispatcher iff the owner is
\* active and the price is at most the 90-day lowest or at most a set target.
C7_DispatchOnEveryPricedCheck_Step ==
    nChecks' = nChecks + 1 /\ lastCheck'.outcome = "items" =>
        LET i == lastCheck'.item
            p == lastCheck'.price
            window == { history'[k].price : k \in
                          { k \in 1..Len(history') :
                              /\ history'[k].item = i
                              /\ now - history'[k].recorded_at
                                    <= Days(LOWEST_WINDOW_DAYS) } }
            atLowest == \A x \in window : p <= x
            atTarget == items[i].target_price # NULL /\ p <= items[i].target_price
        IN  (nAlerts' = nAlerts + 1)
                <=> (users[items[i].user].is_active /\ (atLowest \/ atTarget))
C7_DispatchOnChangedPrice_Step ==
    nChecks' = nChecks + 1 =>
        LET i == lastCheck'.item
            p == lastCheck'.price
            window == { history'[k].price : k \in
                          { k \in 1..Len(history') :
                              /\ history'[k].item = i
                              /\ now - history'[k].recorded_at
                                    <= Days(LOWEST_WINDOW_DAYS) } }
            atLowest == \A x \in window : p <= x
            atTarget == items[i].target_price # NULL /\ p <= items[i].target_price
        IN  IF lastCheck'.outcome = "items" /\ p # items[i].current_price
            THEN (nAlerts' = nAlerts + 1)
                    <=> (users[items[i].user].is_active /\ (atLowest \/ atTarget))
            ELSE nAlerts' = nAlerts
------------------------------------------------------------------------------
(* Wishlist API *)

\* The value of item.id between WishlistItem(...) and the flush: the column
\* default uuid.uuid4 is applied when the row is inserted, not when the object
\* is constructed, and add_to_wishlist does not flush before reading item.id.
ItemIdBeforeFlush_Assigned(newId) == newId

ItemIdBeforeFlush(newId) == NULL

\* The rows of one user, as select(WishlistItem).where(user_id == ...) sees them.
ItemsOf(u) == {i \in DOMAIN items : items[i].user = u}

\* The duplicate lookup of add_to_wishlist and the unique index
\* ix_wishlist_user_product on (user_id, product_id).
HasProduct(u, product) ==
    \E i \in DOMAIN items : items[i].user = u /\ items[i].product = product

\* The database of the wishlist API's behaviours: user u1 owns one row short of
\* the limit, or the limit; u2 owns none.
InitWishlistDb ==
    /\ now = 0
    /\ users = [u \in UserIds |-> UserRow(TRUE, TRUE, TRUE, TRUE, FALSE, TRUE)]
    /\ \E k \in {MAX_WISHLIST_ITEMS - 1, MAX_WISHLIST_ITEMS} :
          /\ items = [i \in 1..k |-> NewWishlistItem("u1", i, InitPrice, NULL)]
          /\ history = [i \in 1..k |->
                          [item |-> i, price |-> InitPrice, recorded_at |-> 0]]

IdleWl ==
    /\ creates = <<>>
    /\ nDeletes = 0

\* The product ids of the create requests: one u1 already has, two nobody has.
CreateProducts == {1, MAX_WISHLIST_ITEMS + 1, MAX_WISHLIST_ITEMS + 2}
CreatePrices == {1, MaxPrice}

\* add_to_wishlist up to its first await's answer: the duplicate lookup.
CreateBegin(u, product, price) ==
    /\ Len(creates) < MaxCreates
    /\ creates' = Append(creates,
          [ user |-> u, product |-> product, price |-> price,
            pc |-> IF HasProduct(u, product) THEN "duplicate" ELSE "dup_checked",
            item |-> NULL ])
    /\ UNCHANGED <<nDeletes, dbVars, monVars, chatVars, cacheVars, runVars, sessVars, parseVars, agentVars, gwVars, extractVars, bundleVars, execVars, worldVars>>

\* add_to_wishlist: the count of the user's rows against the limit.
CreateCount(r) ==
    /\ r \in 1..Len(creates)
    /\ creates[r].pc = "dup_checked"
    /\ creates' = [creates EXCEPT ![r].pc =
          IF Cardinality(ItemsOf(creates[r].user)) >= MAX_WISHLIST_ITEMS
          THEN "limit" ELSE "count_checked"]
    /\ UNCHANGED <<nDeletes, dbVars, monVars, chatVars, cacheVars, runVars, sessVars, parseVars, agentVars, gwVars, extractVars, bundleVars, execVars, worldVars>>

\* add_to_wishlist from WishlistItem(...) to the commit: the item and its first
\* price_history row are inserted in one transaction, which the unique index and
\* the NOT NULL price_history.wishlist_item_id can refuse.
CreateCommit(r) ==
    /\ r \in 1..Len(creates)
    /\ creates[r].pc = "count_checked"
    /\ LET req   == creates[r]
           newId == MAX_WISHLIST_ITEMS + r
           item  == NewWishlistItem(req.user, req.product, req.price, NULL)
           wishlist_item_id == ItemIdBeforeFlush(newId)
           refused == HasProduct(req.user, req.product) \/ wishlist_item_id = NULL
       IN  IF refused
           THEN /\ creates' = [creates EXCEPT ![r].pc = "integrity_error"]
                /\ UNCHANGED <<items, history>>
           ELSE /\ creates' = [creates EXCEPT ![r].pc = "created",
                                              ![r].item = newId]
                /\ items' = [i \in DOMAIN items \cup {newId} |->
                               IF i = newId THEN item ELSE items[i]]
                /\ history' = Append(history,
                      [ item |-> wishlist_item_id, price |-> req.price,
                        recorded_at |-> now ])
    /\ UNCHANGED <<now, users, nDeletes, monVars, chatVars, cacheVars, runVars, sessVars, parseVars, agentVars, gwVars, extractVars, bundleVars, execVars, worldVars>>

\* The items the delete requests of the model name.
DeleteTargets == {1, 2} \cup (MAX_WISHLIST_ITEMS + 1 .. MAX_WISHLIST_ITEMS + MaxCreates)

\* remove_from_wishlist of an item the user owns; price_history rows go with it
\* (ondelete CASCADE).
DeleteItem(u, i) ==
    LET Other(h) == h.item # i IN
    /\ nDeletes < MaxDeletes
    /\ i \in DOMAIN items
    /\ items[i].user = u
    /\ items' = [j \in DOMAIN items \ {i} |-> items[j]]
    /\ history' = SelectSeq(history, Other)
    /\ nDeletes' = nDeletes + 1
    /\ UNCHANGED <<now, users, creates, monVars, chatVars, cacheVars, runVars, sessVars, parseVars, agentVars, gwVars, extractVars, bundleVars, execVars, worldVars>>

NextWishlist ==
    \/ \E u \in UserIds, product \in CreateProducts, price \in CreatePrices :
          CreateBegin(u, product, price)
    \/ \E r \in 1..MaxCreates : CreateCount(r)
    \/ \E r \in 1..MaxCreates : CreateCommit(r)
    \/ \E u \in UserIds, i \in DeleteTargets : DeleteItem(u, i)

\* C8: after any interleaving of create and delete requests no two wishlist
\* rows share (user_id, product_id) and no user owns more than 20 rows; a create
\* request that would violate either bound is rejected and adds no row.
C8_Bounds ==
    /\ \A i, j \in DOMAIN items :
          (i # j /\ items[i].user = items[j].user) =>
              items[i].product # items[j].product
    /\ \A u \in UserIds : Cardinality(ItemsOf(u)) <= MAX_WISHLIST_ITEMS
C8_RejectStep ==
    \A r \in 1..Len(creates') :
        LET req == creates'[r]
            begun == r > Len(creates)
            counted == ~begun /\ creates[r].pc = "dup_checked"
                              /\ req.pc # "dup_checked"
        IN  /\ (begun /\ HasProduct(req.user, req.product)) =>
                  (req.pc = "duplicate" /\ items' = items /\ history' = history)
            /\ (counted /\ Cardinality(ItemsOf(req.user)) >= MAX_WISHLIST_ITEMS) =>
                  (req.pc = "limit" /\ items' = items /\ history' = history)
C9_CommitStep ==
    \A r \in 1..Len(creates) :
        (creates[r].pc = "count_checked" /\ creates'[r].pc # "count_checked") =>
            /\ creates'[r].pc = "created"
            /\ \E i \in DOMAIN items' \ DOMAIN items :
                  /\ items'[i].user = creates[r].user
                  /\ items'[i].product = creates[r].product
                  /\ items'[i].current_price = creates[r].price
                  /\ Cardinality({k \in 1..Len(history') :
                                     history'[k].item = i}) = 1
                  /\ \A k \in 1..Len(history') :
                        history'[k].item = i =>
                            history'[k].price = creates[r].price
C9_AcceptedCreateStoresItemAndRow == [][C9_CommitStep]_vars

------------------------------------------------------------------------------
(* TTL cache *)

\* settings.cache_ttl_seconds
cache_ttl_seconds == 3600

CacheKeys == {"k1", "k2"}
CacheValues == {"a", "b"}
\* The ttl_seconds arguments of set: None (NULL), 0 and a second.
TtlArgs == {NULL, 0, 1}
ClockSteps == {1, cache_ttl_seconds}

NoGet == [key |-> "none", hit |-> FALSE, value |-> "none"]

InitCache ==
    /\ cache = [k \in {} |-> NULL]
    /\ clock = 0
    /\ lastGet = NoGet
    /\ lastSetValue = [k \in CacheKeys |-> "none"]
    /\ nGets = 0
    /\ nCacheOps = 0

\* CacheEntry(value, ttl_seconds)
CacheEntry(value, ttl_seconds, t) ==
    [value |-> value, expires_at |-> t + ttl_seconds]

\* CacheEntry.is_expired without the comparison: an entry never expires.
is_expired_Never(entry, t) == FALSE

\* CacheEntry.is_expired
is_expired(entry, t) == t > entry.expires_at

Without(f, k) == [j \in DOMAIN f \ {k} |-> f[j]]

CacheUnchangedElsewhere == UNCHANGED <<chatVars, dbVars, monVars, wlVars, runVars, sessVars, parseVars, agentVars, gwVars, extractVars, bundleVars, execVars, worldVars>>

\* InMemoryCache.get
CacheGet(key) ==
    /\ nCacheOps < MaxCacheOps
    /\ IF key \notin DOMAIN cache
       THEN /\ lastGet' = [key |-> key, hit |-> FALSE, value |-> "none"]
            /\ cache' = cache
       ELSE IF is_expired(cache[key], clock)
       THEN /\ lastGet' = [key |-> key, hit |-> FALSE, value |-> "none"]
            /\ cache' = Without(cache, key)
       ELSE /\ lastGet' = [key |-> key, hit |-> TRUE, value |-> cache[key].value]
            /\ cache' = cache
    /\ nGets' = nGets + 1
    /\ nCacheOps' = nCacheOps + 1
    /\ UNCHANGED <<clock, lastSetValue>>
    /\ CacheUnchangedElsewhere

\* InMemoryCache.set: ttl = ttl_seconds or settings.cache_ttl_seconds
CacheSet(key, value, ttl_seconds) ==
    LET ttl == IF ttl_seconds = NULL \/ ttl_seconds = 0 THEN cache_ttl_seconds
               ELSE ttl_seconds
    IN
    /\ nCacheOps < MaxCacheOps
    /\ cache' = [j \in DOMAIN cache \cup {key} |->
                   IF j = key THEN CacheEntry(value, ttl, clock) ELSE cache[j]]
    /\ lastSetValue' = [lastSetValue EXCEPT ![key] = value]
    /\ nCacheOps' = nCacheOps + 1
    /\ UNCHANGED <<clock, lastGet, nGets>>
    /\ CacheUnchangedElsewhere

\* InMemoryCache.delete
CacheDelete(key) ==
    /\ nCacheOps < MaxCacheOps
    /\ cache' = IF key \in DOMAIN cache THEN Without(cache, key) ELSE cache
    /\ nCacheOps' = nCacheOps + 1
    /\ UNCHANGED <<clock, lastGet, lastSetValue, nGets>>
    /\ CacheUnchangedElsewhere

\* InMemoryCache.clear
CacheClear ==
    /\ nCacheOps < MaxCacheOps
    /\ cache' = [k \in {} |-> NULL]
    /\ nCacheOps' = nCacheOps + 1
    /\ UNCHANGED <<clock, lastGet, lastSetValue, nGets>>
    /\ CacheUnchangedElsewhere

\* InMemoryCache.clear_expired
CacheClearExpired ==
    /\ nCacheOps < MaxCacheOps
    /\ cache' = [j \in {k \in DOMAIN cache : ~is_expired(cache[k], clock)} |->
                   cache[j]]
    /\ nCacheOps' = nCacheOps + 1
    /\ UNCHANGED <<clock, lastGet, lastSetValue, nGets>>
    /\ CacheUnchangedElsewhere

\* The clock between two cache operations.
CacheTick(d) ==
    /\ nCacheOps < MaxCacheOps
    /\ clock' = clock + d
    /\ nCacheOps' = nCacheOps + 1
    /\ UNCHANGED <<cache, lastGet, lastSetValue, nGets>>
    /\ CacheUnchangedElsewhere

\* get_or_set is get followed, on a miss, by set, each under the lock on its
\* own: its behaviours are those of a CacheGet step and a later CacheSet step.
NextCache ==
    \/ \E key \in CacheKeys : CacheGet(key)
    \/ \E key \in CacheKeys, value \in CacheValues, ttl_seconds \in TtlArgs :
          CacheSet(key, value, ttl_seconds)
    \/ \E key \in CacheKeys : CacheDelete(key)
    \/ CacheClear
    \/ CacheClearExpired
    \/ \E d \in ClockSteps : CacheTick(d)

\* C10: get(k) never returns a value whose expires_at lies before the current
\* time: a get on an expired entry is a miss and removes the entry, a get on an
\* unexpired entry returns the value last set for k, a get of an absent key is
\* a miss.
C10_GetStep ==
    nGets' = nGets + 1 =>
        LET k == lastGet'.key IN
        IF k \notin DOMAIN cache
        THEN ~lastGet'.hit /\ cache' = cache
        ELSE IF cache[k].expires_at < clock
        THEN ~lastGet'.hit /\ k \notin DOMAIN cache'
                           /\ \A j \in DOMAIN cache \ {k} :
                                 j \in DOMAIN cache' /\ cache'[j] = cache[j]
        ELSE lastGet'.hit /\ lastGet'.value = lastSetValue[k] /\ cache' = cache
C10_GetNeverReturnsExpired == [][C10_GetStep]_vars

\* A get of a key set with a one-second ttl, made after the entry expired, was a
\* miss and the entry is gone, while the other key's entry is still stored.
C10_Witness ==
    /\ nGets >= 1
    /\ lastGet.key = "k1"
    /\ ~lastGet.hit
    /\ lastSetValue["k1"] # "none"
    /\ "k1" \notin DOMAIN cache
    /\ "k2" \in DOMAIN cache

------------------------------------------------------------------------------
(* Monitoring runs: check_all_wishlist_prices, the scheduled job, the trigger *)

\* The database of the monitoring runs' behaviours: user u1 owns two rows with
\* notifications enabled, u2 one row with notifications disabled; every row has
\* the price_history row its creation recorded.
InitRunDb ==
    /\ now = 0
    /\ users = [u \in UserIds |-> UserRow(TRUE, TRUE, TRUE, TRUE, FALSE, TRUE)]
    /\ items = [i \in 1..3 |->
                  IF i = 3
                  THEN [NewWishlistItem("u2", i, InitPrice, NULL)
                           EXCEPT !.notification_enabled = FALSE]
                  ELSE NewWishlistItem("u1", i, InitPrice, NULL)]
    /\ history = [i \in 1..3 |->
                    [item |-> i, price |-> InitPrice, recorded_at |-> 0]]

IdleRun ==
    /\ runs = <<>>
    /\ triggers = <<>>

RECURSIVE SortedSeq(_)
\* The elements of a set of integers as an ascending sequence.
SortedSeq(S) ==
    IF S = {} THEN <<>>
    ELSE LET m == SetMin(S) IN <<m>> \o SortedSeq(S \ {m})

\* The select of check_all_wishlist_prices: the rows whose notification_enabled
\* is true, in primary-key order.
EnabledItems(its) ==
    SortedSeq({ i \in DOMAIN its : its[i].notification_enabled })

\* A loop that stops at the first item whose check raises.
RemainingAfter_AbortOnError(queue, raised) ==
    IF raised THEN <<>> ELSE Tail(queue)

\* for item in items: try ... except Exception: the items still to visit after
\* the head of the queue was checked, whether or not its check raised.
RemainingAfter(queue, raised) == Tail(queue)

\* What naver_client.search gives an iteration of a run: an error, no items, the
\* stored price of the initial rows or a price below it.
RunSearchOutcomes ==
    { o \in SearchOutcomes : o.kind = "items" => o.price \in {InitPrice - 1, InitPrice} }

\* check_all_wishlist_prices up to the loop, inside _run_price_monitoring: the
\* run record with the items the select loaded and the zeroed results; the
\* select gives the rows ("ok") or raises ("db_error"), and the error is
\* re-raised after the rollback and logged by _run_price_monitoring.
NewRun(origin, trigger, load) ==
    [ origin |-> origin, trigger |-> trigger,
      pc |-> IF load = "ok" THEN "loop" ELSE "failed",
      loaded |-> IF load = "ok" THEN EnabledItems(items) ELSE <<>>,
      queue |-> IF load = "ok" THEN EnabledItems(items) ELSE <<>>,
      attempted |-> <<>>,
      channel_raises |-> 0,
      gateway_errors |-> 0,
      results |-> [checked |-> 0, updated |-> 0, alerts_sent |-> 0, errors |-> 0] ]

\* A fire of _run_price_monitoring by one of the two scheduled jobs that run it,
\* price_monitoring and daily_price_check.
ScheduledRun(load) ==
    /\ Len(runs) < MaxRuns
    /\ runs' = Append(runs, NewRun("scheduled", 0, load))
    /\ UNCHANGED <<triggers, dbVars, monVars, chatVars, wlVars, cacheVars, sessVars, parseVars, agentVars, gwVars, extractVars, bundleVars, execVars, worldVars>>

\* POST /admin/price-check/trigger: the handler adds run_check to the background
\* tasks and returns its message.
trigger_price_check ==
    /\ Len(triggers) < MaxTriggers
    /\ triggers' = Append(triggers, [ responded |-> TRUE, pc |-> "scheduled",
                                      run |-> 0, runs_at_response |-> Len(runs) ])
    /\ UNCHANGED <<runs, dbVars, monVars, chatVars, wlVars, cacheVars, sessVars, parseVars, agentVars, gwVars, extractVars, bundleVars, execVars, worldVars>>

\* A trigger_price_monitoring that starts the run without awaiting it.
trigger_price_monitoring_Begin_NoAwait(t, load) ==
    /\ t \in 1..Len(triggers)
    /\ triggers[t].pc = "scheduled"
    /\ Len(runs) < MaxRuns
    /\ runs' = Append(runs, NewRun("manual", 0, load))
    /\ triggers' = [triggers EXCEPT ![t].pc = "returned",
                                    ![t].run = Len(runs) + 1]
    /\ UNCHANGED <<dbVars, monVars, chatVars, wlVars, cacheVars, sessVars, parseVars, agentVars, gwVars, extractVars, bundleVars, execVars, worldVars>>

\* The background task of a trigger request starts: run_check awaits
\* scheduler.trigger_price_monitoring(), which awaits _run_price_monitoring().
trigger_price_monitoring_Begin(t, load) ==
    /\ t \in 1..Len(triggers)
    /\ triggers[t].pc = "scheduled"
    /\ Len(runs) < MaxRuns
    /\ runs' = Append(runs, NewRun("manual", t, load))
    /\ triggers' = [triggers EXCEPT ![t].pc = "running",
                                    ![t].run = Len(runs) + 1]
    /\ UNCHANGED <<dbVars, monVars, chatVars, wlVars, cacheVars, sessVars, parseVars, agentVars, gwVars, extractVars, bundleVars, execVars, worldVars>>

\* A _check_item_price that lets the gateway's NaverShoppingError out as well.
CheckRaises_GatewayToo(search) == search.kind \in {"other_error", "gateway_error"}

\* Whether _check_item_price raises: except NaverShoppingError logs and lets the
\* call return (False, False); except Exception logs and re-raises.
CheckRaises(search) == search.kind = "other_error"

\* One iteration of the loop of check_all_wishlist_prices for run r: the check
\* of the item at the head of the queue and the bookkeeping of its result.
RunItem(r, search, kres, eres) ==
    /\ r \in 1..Len(runs)
    /\ runs[r].pc = "loop"
    /\ runs[r].queue # <<>>
    /\ LET i == Head(runs[r].queue)
           c == check_item_price(i, items[i], history, users[items[i].user],
                                 now, search, kres, eres)
           raised == CheckRaises(search)
           res == runs[r].results
           chRaise == c.invoked /\ "raise" \in {c.alert.kakao, c.alert.email}
       IN
       /\ items' = [items EXCEPT ![i] = c.item]
       /\ history' = history \o c.rows
       /\ runs' = [runs EXCEPT
             ![r].queue = RemainingAfter(runs[r].queue, raised),
             ![r].attempted = Append(runs[r].attempted, i),
             ![r].channel_raises =
                 IF chRaise THEN runs[r].channel_raises + 1
                 ELSE runs[r].channel_raises,
             ![r].gateway_errors =
                 IF search.kind = "gateway_error" THEN runs[r].gateway_errors + 1
                 ELSE runs[r].gateway_errors,
             ![r].results =
                 IF raised THEN [res EXCEPT !.errors = res.errors + 1]
                 ELSE [ checked |-> res.checked + 1,
                        updated |-> IF c.updated THEN res.updated + 1
                                    ELSE res.updated,
                        alerts_sent |-> IF c.alert_sent THEN res.alerts_sent + 1
                                        ELSE res.alerts_sent,
                        errors |-> res.errors ]]
    /\ UNCHANGED <<now, users, triggers, monVars, chatVars, wlVars, cacheVars, sessVars, parseVars, agentVars, gwVars, extractVars, bundleVars, execVars, worldVars>>

\* The end of run r: the loop is over, check_all_wishlist_prices commits and
\* returns its results, _run_price_monitoring logs them; a run a manual trigger
\* started then lets trigger_price_monitoring return {"status": "completed"}.
RunFinish(r) ==
    /\ r \in 1..Len(runs)
    /\ runs[r].pc = "loop"
    /\ runs[r].queue = <<>>
    /\ runs' = [runs EXCEPT ![r].pc = "done"]
    /\ triggers' = IF runs[r].trigger # 0
                   THEN [triggers EXCEPT ![runs[r].trigger].pc = "returned"]
                   ELSE triggers
    /\ UNCHANGED <<dbVars, monVars, chatVars, wlVars, cacheVars, sessVars, parseVars, agentVars, gwVars, extractVars, bundleVars, execVars, worldVars>>

\* A run of a manual trigger whose select failed: _run_price_monitoring logged
\* the error and trigger_price_monitoring returns {"status": "completed"}.
trigger_price_monitoring_ReturnAfterError(t) ==
    /\ t \in 1..Len(triggers)
    /\ triggers[t].pc = "running"
    /\ runs[triggers[t].run].pc = "failed"
    /\ triggers' = [triggers EXCEPT ![t].pc = "returned"]
    /\ UNCHANGED <<runs, dbVars, monVars, chatVars, wlVars, cacheVars, sessVars, parseVars, agentVars, gwVars, extractVars, bundleVars, execVars, worldVars>>

NextRun ==
    \/ \E load \in {"ok", "db_error"} : ScheduledRun(load)
    \/ trigger_price_check
    \/ \E t \in 1..MaxTriggers, load \in {"ok", "db_error"} :
          trigger_price_monitoring_Begin(t, load)
    \/ \E r \in 1..MaxRuns, search \in RunSearchOutcomes,
          kres \in ChannelResults, eres \in ChannelResults :
          RunItem(r, search, kres, eres)
    \/ \E r \in 1..MaxRuns : RunFinish(r)
    \/ \E t \in 1..MaxTriggers : trigger_price_monitoring_ReturnAfterError(t)

\* C12: in a run of check_all_wishlist_prices, every notification-enabled item
\* loaded at the start is attempted exactly once and in order, whatever happened
\* to the items before it (a catalog error, an exception raised by a
\* notification channel, any other exception of the item's check): the items
\* attempted so far followed by the items still queued are the items loaded, a
\* finished run has attempted them all and counted each as checked or as an
\* error, and a run fails only at its select, before any item, never because of
\* a notification.
C12_EveryLoadedItemAttemptedOnce ==
    \A r \in 1..Len(runs) :
        /\ runs[r].attempted \o runs[r].queue = runs[r].loaded
        /\ runs[r].pc # "failed" => runs[r].loaded = EnabledItems(items)
        /\ runs[r].pc = "done" =>
              /\ runs[r].queue = <<>>
              /\ runs[r].results.checked + runs[r].results.errors
                    = Len(runs[r].loaded)
        /\ runs[r].pc = "failed" =>
              runs[r].attempted = <<>> /\ runs[r].channel_raises = 0

\* A finished run whose first item's check raised, whose second item's check
\* met a notification channel that raised and sent no alert, and which still
\* attempted both items.
C12_Witness ==
    \E r \in 1..Len(runs) :
        /\ runs[r].pc = "done"
        /\ runs[r].attempted = <<1, 2>>
        /\ runs[r].results.errors = 1
        /\ runs[r].results.checked = 1
        /\ runs[r].results.alerts_sent = 0
        /\ runs[r].channel_raises = 1
        /\ items[1].current_price = InitPrice
        /\ items[2].current_price = InitPrice - 1

------------------------------------------------------------------------------
(* Session store under concurrent chat requests *)

\* Settings.session_ttl_minutes
session_ttl_minutes == 60

\* The store after construction: no session object exists.
InitSession ==
    /\ sstore = [s \in 1..MaxReqs |->
                   [stored |-> FALSE, created_at |-> NULL, messages |-> <<>>,
                    turn_count |-> 0]]
    /\ sclock = 0
    /\ nTicks = 0
    /\ reqs = <<>>
    /\ minted = 0

\* A get_session without the TTL check.
get_session_IgnoreTtl(store, session_id, t) ==
    IF session_id \in DOMAIN store /\ store[session_id].stored
    THEN [ result |-> session_id, store |-> store ]
    ELSE [ result |-> 0, store |-> store ]

\* InMemorySessionStore.get_session(session_id) at time t: the id of the session
\* returned (0 for None) and the store as the call leaves it.
get_session(store, session_id, t) ==
    IF session_id \in DOMAIN store /\ store[session_id].stored
    THEN IF t - store[session_id].created_at > session_ttl_minutes
         THEN [ result |-> 0,
                store |-> [store EXCEPT ![session_id].stored = FALSE] ]
         ELSE [ result |-> session_id, store |-> store ]
    ELSE [ result |-> 0, store |-> store ]

\* An add_user_message that replaces the message list instead of appending.
add_user_message_Overwrite(session, content) ==
    [session EXCEPT !.messages = <<content>>, !.turn_count = @ + 1]

\* SessionState.add_user_message(content)
add_user_message(session, content) ==
    [session EXCEPT !.messages = Append(@, content), !.turn_count = @ + 1]

\* InMemorySessionStore.create_session() at time t: a SessionState under the
\* next new id, put into _sessions.
create_session(store, t) ==
    [store EXCEPT ![minted + 1] =
        [stored |-> TRUE, created_at |-> t, messages |-> <<>>, turn_count |-> 0]]

\* A chat request calls get_or_create_session(given), given = 0 standing for no
\* id: the session get_session finds, else the one create_session makes. The
\* request then holds the session object sid.
get_or_create_session(given) ==
    LET g == get_session(sstore, given, sclock)
        found == given # 0 /\ g.result # 0
        after == IF given # 0 THEN g.store ELSE sstore
    IN
    /\ Len(reqs) < MaxReqs
    /\ reqs' = Append(reqs, [ given |-> given, pc |-> "append",
                              sid |-> IF found THEN g.result ELSE minted + 1,
                              created |-> ~found ])
    /\ sstore' = IF found THEN after ELSE create_session(after, sclock)
    /\ minted' = IF found THEN minted ELSE minted + 1
    /\ UNCHANGED <<sclock, nTicks, chatVars, dbVars, monVars, wlVars, cacheVars,
                   runVars, parseVars, agentVars, gwVars, extractVars, bundleVars, execVars, worldVars>>

\* send_chat_message for request k after get_or_create_session returned:
\* session.add_user_message(request.message) on the object it holds. The
\* message of request k is k.
AddUserMessage(k) ==
    /\ k \in 1..Len(reqs)
    /\ reqs[k].pc = "append"
    /\ sstore' = [sstore EXCEPT ![reqs[k].sid] = add_user_message(@, k)]
    /\ reqs' = [reqs EXCEPT ![k].pc = "done"]
    /\ UNCHANGED <<sclock, nTicks, minted, chatVars, dbVars, monVars, wlVars,
                   cacheVars, runVars, parseVars, agentVars, gwVars, extractVars, bundleVars, execVars, worldVars>>

\* InMemorySessionStore.delete_session(session_id)
delete_session(session_id) ==
    /\ session_id \in 1..minted
    /\ sstore[session_id].stored
    /\ sstore' = [sstore EXCEPT ![session_id].stored = FALSE]
    /\ UNCHANGED <<sclock, nTicks, reqs, minted, chatVars, dbVars, monVars,
                   wlVars, cacheVars, runVars, parseVars, agentVars, gwVars, extractVars, bundleVars, execVars, worldVars>>

\* InMemorySessionStore.clear_expired()
clear_expired ==
    /\ sstore' = [s \in DOMAIN sstore |->
                    IF sstore[s].stored
                       /\ sclock - sstore[s].created_at > session_ttl_minutes
                    THEN [sstore[s] EXCEPT !.stored = FALSE]
                    ELSE sstore[s]]
    /\ sstore' # sstore
    /\ UNCHANGED <<sclock, nTicks, reqs, minted, chatVars, dbVars, monVars,
                   wlVars, cacheVars, runVars, parseVars, agentVars, gwVars, extractVars, bundleVars, execVars, worldVars>>

\* The passage of d minutes between two steps of the store: the TTL exactly, or
\* a minute more.
SessTick(d) ==
    /\ nTicks < MaxTicks
    /\ sclock' = sclock + d
    /\ nTicks' = nTicks + 1
    /\ UNCHANGED <<sstore, reqs, minted, chatVars, dbVars, monVars, wlVars,
                   cacheVars, runVars, parseVars, agentVars, gwVars, extractVars, bundleVars, execVars, worldVars>>

NextSession ==
    \/ \E given \in {0, 1, 2} : get_or_create_session(given)
    \/ \E k \in 1..MaxReqs : AddUserMessage(k)
    \/ \E s \in 1..MaxReqs : delete_session(s)
    \/ clear_expired
    \/ \E d \in {session_ttl_minutes, session_ttl_minutes + 1} : SessTick(d)

\* C17 as claimed: the caller of the manual trigger has its response only after
\* the run the trigger started has finished, never while it is still to run or
\* in progress.
C17_TriggerRespondsAfterRun ==
    \A t \in 1..Len(triggers) :
        triggers[t].responded =>
            /\ triggers[t].run # 0
            /\ runs[triggers[t].run].pc \in {"done", "failed"}

\* C17 as the code has it: SchedulerService.trigger_price_monitoring returns
\* only after the run it started has finished, with its results or with its
\* error logged; the admin endpoint that calls it from a background task has
\* responded to its caller before that run began.
C17_SchedulerTriggerReturnsAfterRun ==
    \A t \in 1..Len(triggers) :
        /\ triggers[t].pc = "returned" =>
              /\ triggers[t].run # 0
              /\ runs[triggers[t].run].pc \in {"done", "failed"}
        /\ triggers[t].responded
        /\ triggers[t].run # 0 => triggers[t].run > triggers[t].runs_at_response

\* A manual trigger whose run has attempted both items and finished, after
\* which trigger_price_monitoring returned.
C17_Witness ==
    \E t \in 1..Len(triggers) :
        /\ triggers[t].pc = "returned"
        /\ triggers[t].run # 0
        /\ runs[triggers[t].run].pc = "done"
        /\ runs[triggers[t].run].origin = "manual"
        /\ Len(runs[triggers[t].run].attempted) = 2

\* C13: whatever the interleaving of the chat requests that hold one session,
\* the session's message list holds the message of each request that has
\* appended exactly once and nothing else, so it is one linear order of those
\* messages with none lost or duplicated, and turn_count is their number.
C13_AppendsAreNeitherLostNorDuplicated ==
    \A s \in DOMAIN sstore :
        LET msgs == sstore[s].messages
            appended == { k \in 1..Len(reqs) :
                            reqs[k].pc = "done" /\ reqs[k].sid = s }
        IN  /\ { msgs[j] : j \in 1..Len(msgs) } = appended
            /\ Len(msgs) = Cardinality(appended)
            /\ sstore[s].turn_count = Len(msgs)

\* Requests 2 and 3 both carried the id of the session request 1 created, held
\* it at the same time, and appended in the order 3, 2.
C13_Witness ==
    /\ Len(reqs) = 3
    /\ reqs[2].given = 1 /\ reqs[3].given = 1
    /\ reqs[2].sid = 1 /\ reqs[3].sid = 1
    /\ sstore[1].stored
    /\ sstore[1].messages = <<1, 3, 2>>
    /\ sstore[1].turn_count = 3

\* A step in which a request calls get_or_create_session: q is the request, id
\* the session id it carries.
C14_LookupStep ==
    Len(reqs') = Len(reqs) + 1 =>
        LET q == reqs'[Len(reqs')]
            id == q.given
            held == id # 0 /\ sstore[id].stored
            expired == held /\ sclock - sstore[id].created_at > session_ttl_minutes
        IN  \* get_session returned the session only if it is stored and not
            \* older than the TTL; an expired entry is removed
            /\ ~q.created => held /\ ~expired /\ q.sid = id
            /\ held /\ ~expired => ~q.created
            /\ expired => ~sstore'[id].stored
            \* otherwise the request got a new session under an id never used
            /\ q.created =>
                  /\ ~sstore[q.sid].stored
                  /\ sstore[q.sid].created_at = NULL
                  /\ \A k \in 1..Len(reqs) : reqs[k].sid # q.sid
                  /\ sstore'[q.sid] = [ stored |-> TRUE, created_at |-> sclock,
                                        messages |-> <<>>, turn_count |-> 0 ]

\* C14: get_session never returns a session older than the TTL: for an id that
\* is not stored it returns None, for an expired one None and the entry is
\* removed; get_or_create_session with no id, an unknown id or an expired one
\* returns a new session stored under a newly minted id.
C14_NoSessionPastTtl == [][C14_LookupStep]_vars

\* A request carried the id of session 1 more than the TTL after its creation:
\* session 1 is gone from the store and the request holds the new session 2.
C14_Witness ==
    /\ Len(reqs) >= 2
    /\ reqs[2].given = 1 /\ reqs[2].created /\ reqs[2].sid = 2
    /\ sstore[1].created_at = 0 /\ ~sstore[1].stored
    /\ sstore[2].created_at = session_ttl_minutes + 1
    /\ sstore[2].stored

------------------------------------------------------------------------------
(* Text parser: extract_budget, extract_recipient_info *)

\* A text is a sequence of characters; a Hangul syllable is written by its
\* romanisation ("man" for the unit of ten thousand, "cheon" of a thousand,
\* "won" the currency, "dae" the age-group suffix, "gae" the counter of pieces).
\* The words the texts of the model are made of.
ParserWords ==
    { <<"3", "0", "dae">>,                          \* an age group, thirties
      <<"2", "gae">>,                               \* two pieces
      <<"5", "man", "won">>,                        \* 50 000 won
      <<"5", "cheon", "won">>,                      \* 5 000 won
      <<"3", "~", "5", "man", "won">>,              \* 30 000 to 50 000 won
      <<"chin", "gu">>,                             \* friend
      <<"yeo", "ja", "chin", "gu">>,                \* girlfriend
      <<"nam", "ja", "chin", "gu">>,                \* boyfriend
      <<"gyeol", "hon">>,                           \* wedding
      <<"gyeol", "hon", "gi", "nyeom", "il">>,      \* wedding anniversary
      <<"seon", "mul">> }                           \* gift

RECURSIVE TextOf(_)
\* The text of a sequence of words: the words joined by single spaces.
TextOf(ws) ==
    IF ws = <<>> THEN <<>>
    ELSE IF Len(ws) = 1 THEN ws[1]
    ELSE ws[1] \o <<" ">> \o TextOf(Tail(ws))

\* The result variables before the extractor ran.
NotParsed == [called |-> FALSE]

IdleParser ==
    /\ words = <<>>
    /\ budget = NotParsed
    /\ recipient = NotParsed

\* The extractors are handed a text of one to MaxWords words.
InitParser ==
    /\ words \in UNION { [1..n -> ParserWords] : n \in 1..MaxWords }
    /\ budget = NotParsed
    /\ recipient = NotParsed

\* The character at position i of text t, "" past its end.
At(t, i) == IF i \in 1..Len(t) THEN t[i] ELSE ""

Digits == {"0", "1", "2", "3", "4", "5", "6", "7", "8", "9"}

RECURSIVE NumEnd(_, _)
\* \d+ from position i, a digit: the position of the last digit of the run.
NumEnd(t, i) == IF At(t, i + 1) \in Digits THEN NumEnd(t, i + 1) ELSE i

RECURSIVE NumVal(_, _, _)
\* float(num_str) of the digits t[i..j].
NumVal(t, i, j) ==
    LET d == CHOOSE n \in 0..9 : ToString(n) = t[j] IN
    IF i = j THEN d ELSE 10 * NumVal(t, i, j - 1) + d

RECURSIVE SkipSpaces(_, _)
\* \s* from position i: the first position at or after i that holds no space.
SkipSpaces(t, i) == IF At(t, i) = " " THEN SkipSpaces(t, i + 1) ELSE i

\* (천|만|백만|억)? at position k, restricted to the units allowed: the unit ("" when
\* there is none) and the position after it.
UnitAt(t, k, allowed) ==
    IF At(t, k) \in {"cheon", "man", "eok"} \cap allowed
    THEN [unit |-> At(t, k), next |-> k + 1]
    ELSE IF At(t, k) = "baek" /\ At(t, k + 1) = "man"
    THEN [unit |-> "baekman", next |-> k + 2]
    ELSE [unit |-> "", next |-> k]

\* _parse_korean_number(num_str, unit) for a numeral without a fraction.
parse_korean_number(base, unit) ==
    LET multipliers == [ cheon |-> 1000, man |-> 10000, baekman |-> 1000000,
                         eok |-> 100000000 ]
    IN  IF unit # "" /\ unit \in DOMAIN multipliers THEN base * multipliers[unit]
        ELSE IF base > 10000 THEN base
        ELSE IF base > 0 /\ base <= 1000 THEN base * 10000
        ELSE base

RECURSIVE FindAmounts(_, _)
\* re.findall(korean_number_pattern, text) from position i: the (number, unit)
\* pairs of the successive matches.
FindAmounts(t, i) ==
    IF i > Len(t) THEN <<>>
    ELSE IF t[i] \notin Digits THEN FindAmounts(t, i + 1)
    ELSE LET j == NumEnd(t, i)
             u == UnitAt(t, SkipSpaces(t, j + 1), {"cheon", "man", "eok"})
         IN  << [num |-> NumVal(t, i, j), unit |-> u.unit] >>
             \o FindAmounts(t, IF u.unit = "" THEN j + 1 ELSE u.next)

RECURSIVE RangeSearch(_, _)
\* re.search(range_pattern, text) from position i: the groups of the leftmost
\* match, found FALSE when there is none.
RangeSearch(t, i) ==
    IF i > Len(t) THEN [found |-> FALSE]
    ELSE IF t[i] \notin Digits THEN RangeSearch(t, i + 1)
    ELSE LET j1 == NumEnd(t, i)
             u1 == UnitAt(t, SkipSpaces(t, j1 + 1), {"cheon", "man"})
             s  == SkipSpaces(t, u1.next)
             k  == SkipSpaces(t, s + 1)
             j2 == NumEnd(t, k)
             u2 == UnitAt(t, SkipSpaces(t, j2 + 1), {"cheon", "man"})
         IN  IF At(t, s) \in {"~", "-", "e", "seo", "bu", "teo"}
                /\ At(t, k) \in Digits
             THEN [ found |-> TRUE, n1 |-> NumVal(t, i, j1), u1 |-> u1.unit,
                    n2 |-> NumVal(t, k, j2), u2 |-> u2.unit ]
             ELSE RangeSearch(t, i + 1)

\* max(amounts) of a non-empty sequence of numbers.
SeqMax(s) == CHOOSE x \in { s[k] : k \in 1..Len(s) } : \A k \in 1..Len(s) : s[k] <= x

\* extract_budget(text): the BudgetRange (a field that is None is NULL), found
\* FALSE for None. int(base_amount * 0.8) and int(base_amount * 1.2) are exact
\* for the amounts of the model, multiples of 1000.
extract_budget(t) ==
    LET r  == RangeSearch(t, 1)
        lo == parse_korean_number(r.n1, r.u1)
        hi == parse_korean_number(r.n2, r.u2)
        single == FindAmounts(t, 1)
        all == [ k \in 1..Len(single) |->
                   parse_korean_number(single[k].num, single[k].unit) ]
        amounts == SelectSeq(all, LAMBDA a : a # 0)
        base_amount == SeqMax(amounts)
    IN  IF r.found /\ lo # 0 /\ hi # 0
        THEN [ called |-> TRUE, found |-> TRUE, min_price |-> lo,
               max_price |-> hi, total_budget |-> NULL ]
        ELSE IF amounts # <<>>
        THEN [ called |-> TRUE, found |-> TRUE,
               min_price |-> (base_amount * 8) \div 10,
               max_price |-> (base_amount * 12) \div 10,
               total_budget |-> base_amount ]
        ELSE [ called |-> TRUE, found |-> FALSE, min_price |-> NULL,
               max_price |-> NULL, total_budget |-> NULL ]

\* `korean in text`: kw occurs in t as a contiguous run of characters.
Contains(t, kw) ==
    \E i \in 1..(Len(t) - Len(kw) + 1) : SubSeq(t, i, i + Len(kw) - 1) = kw

\* relation_patterns, in the order of the dict.
relation_patterns ==
    << <<(<<"chin", "gu">>), "friend">>,
       <<(<<"dong", "ryo">>), "colleague">>,
       <<(<<"sang", "sa">>), "boss">>,
       <<(<<"bu", "mo", "nim">>), "parent">>,
       <<(<<"eom", "ma">>), "mother">>,
       <<(<<"a", "ppa">>), "father">>,
       <<(<<"yeo", "ja", "chin", "gu">>), "girlfriend">>,
       <<(<<"nam", "ja", "chin", "gu">>), "boyfriend">>,
       <<(<<"a", "nae">>), "wife">>,
       <<(<<"nam", "pyeon">>), "husband">>,
       <<(<<"ja", "nyeo">>), "child">>,
       <<(<<"a", "deul">>), "son">>,
       <<(<<"ttal">>), "daughter">>,
       <<(<<"seon", "saeng", "nim">>), "teacher">>,
       <<(<<"gyo", "su", "nim">>), "professor">> >>

\* occasion_patterns, in the order of the dict.
occasion_patterns ==
    << <<(<<"saeng", "il">>), "birthday">>,
       <<(<<"toe", "sa">>), "farewell">>,
       <<(<<"ip", "sa">>), "welcome">>,
       <<(<<"seung", "jin">>), "promotion">>,
       <<(<<"gyeol", "hon">>), "wedding">>,
       <<(<<"gi", "nyeom", "il">>), "anniversary">>,
       <<(<<"keu", "ri", "seu", "ma", "seu">>), "christmas">>,
       <<(<<"bal", "len", "ta", "in">>), "valentine">>,
       <<(<<"hwa", "i", "teu", "de", "i">>), "whiteday">>,
       <<(<<"eo", "beo", "i", "nal">>), "parents_day">>,
       <<(<<"seu", "seung", "ui", "nal">>), "teachers_day">>,
       <<(<<"jol", "eop">>), "graduation">>,
       <<(<<"ip", "hak">>), "enrollment">> >>

\* for korean, english in patterns.items(): if korean in text: ...; break --
\* the value of the first pattern of the dict the text contains, "none" if none.
FirstPattern(patterns, t) ==
    LET hits == { k \in 1..Len(patterns) : Contains(t, patterns[k][1]) } IN
    IF hits = {} THEN "none" ELSE patterns[SetMin(hits)][2]

\* extract_recipient_info(text): the relation and the occasion of the
\* RecipientInfo ("none" for None).
extract_recipient_info(t) ==
    [ called |-> TRUE,
      relation |-> FirstPattern(relation_patterns, t),
      occasion |-> FirstPattern(occasion_patterns, t) ]

\* A call of extract_budget on the text.
CallExtractBudget ==
    /\ words # <<>>
    /\ ~budget.called
    /\ budget' = extract_budget(TextOf(words))
    /\ UNCHANGED <<words, recipient, chatVars, dbVars, monVars, wlVars,
                   cacheVars, runVars, sessVars, agentVars, gwVars, extractVars, bundleVars, execVars, worldVars>>

\* A call of extract_recipient_info on the text.
CallExtractRecipientInfo ==
    /\ words # <<>>
    /\ ~recipient.called
    /\ recipient' = extract_recipient_info(TextOf(words))
    /\ UNCHANGED <<words, budget, chatVars, dbVars, monVars, wlVars,
                   cacheVars, runVars, sessVars, agentVars, gwVars, extractVars, bundleVars, execVars, worldVars>>

NextParser == CallExtractBudget \/ CallExtractRecipientInfo

\* C15: for a text with a single amount N with unit man or cheon (and possibly
\* other numerals that are no amounts, an age group or a number of pieces),
\* extract_budget gives total_budget = N x the unit's multiplier, min_price =
\* 0.8 x total and max_price = 1.2 x total.
C15_SingleAmountRoundTrip ==
    budget.called =>
        \A k \in 1..Len(words) :
            LET w == words[k]
                total == IF w = <<"5", "man", "won">> THEN 5 * 10000
                         ELSE 5 * 1000
            IN  /\ w \in { <<"5", "man", "won">>, <<"5", "cheon", "won">> }
                /\ \A j \in 1..Len(words) :
                      j # k => words[j][Len(words[j])] # "won"
                => /\ budget.found
                   /\ budget.total_budget = total
                   /\ budget.min_price = (total * 8) \div 10
                   /\ budget.max_price = (total * 12) \div 10

\* C16: extract_recipient_info gives the relation and the occasion of the
\* specific keyword the text mentions: girlfriend for a text with yeo-ja-chin-gu
\* and boyfriend for one with nam-ja-chin-gu (not friend, the keyword chin-gu
\* they contain), anniversary for a text with gyeol-hon-gi-nyeom-il (not wedding,
\* the keyword gyeol-hon it starts with).
C16_LongerKeywordWins ==
    recipient.called =>
        LET t == TextOf(words)
            girl == Contains(t, <<"yeo", "ja", "chin", "gu">>)
            boy  == Contains(t, <<"nam", "ja", "chin", "gu">>)
        IN  /\ girl /\ ~boy => recipient.relation = "girlfriend"
            /\ boy /\ ~girl => recipient.relation = "boyfriend"
            /\ Contains(t, <<"gyeol", "hon", "gi", "nyeom", "il">>)
                  => recipient.occasion = "anniversary"

------------------------------------------------------------------------------
(* Mode agents: the functions of app/agents/*_agent.py on a cache miss *)

\* What one naver_client.search call gives an agent: products, no products, or a
\* NaverShoppingError.
AgentSearchOutcomes == {"items", "empty", "fail"}

\* What llm_provider.generate gives an agent: a reply that parses, a reply that
\* is no JSON, or an exception.
AgentLlmOutcomes == {"ok", "bad_json", "raise"}

NoAgentRun ==
    [ agent |-> "none", outs |-> <<>>, llm |-> "none", llm_calls |-> 0,
      recommendations |-> FALSE, error |-> FALSE ]

IdleAgent ==
    /\ lastAgentRun = NoAgentRun
    /\ nAgentRuns = 0

\* Whether the agent collected any product. outs holds the outcomes of its
\* searches: the value agent searches every query twice (sort sim, then asc,
\* inside one try, so a failed sim search skips the asc one), the review agent
\* makes one search, the others one search per query.
AgentFoundProducts(agent, outs) ==
    CASE agent = "VALUE" ->
            \E q \in 1..MaxQueries :
                \/ outs[2 * q - 1] = "items"
                \/ outs[2 * q - 1] = "empty" /\ outs[2 * q] = "items"
      [] agent = "REVIEW" -> outs[1] = "items"
      [] OTHER -> \E q \in 1..MaxQueries : outs[q] = "items"

\* Agents none of which returns before the model call.
ReturnsErrorOnNoProducts_None(agent) == FALSE

\* Whether the agent has the `if not all_products: return {"recommendations":
\* None, "error": ...}` before its model call: gift, value and bundle have it,
\* review and trend go on to the model call with "검색 결과 없음" in the prompt.
ReturnsErrorOnNoProducts(agent) == agent \in {"GIFT", "VALUE", "BUNDLE"}

\* One run of a mode agent function whose cache lookup missed and whose state
\* names the items or category it needs: the outcome it returns and the number
\* of model calls it made.
agent_run(agent, outs, llm) ==
    LET found == AgentFoundProducts(agent, outs)
        early == ~found /\ ReturnsErrorOnNoProducts(agent)
    IN  [ agent |-> agent, outs |-> outs,
          llm |-> IF early THEN "none" ELSE llm,
          llm_calls |-> IF early THEN 0 ELSE 1,
          recommendations |-> ~early /\ llm = "ok",
          error |-> early \/ llm # "ok" ]

\* A call of a mode agent function.
CallAgent(agent, outs, llm) ==
    /\ nAgentRuns < MaxAgentRuns
    /\ lastAgentRun' = agent_run(agent, outs, llm)
    /\ nAgentRuns' = nAgentRuns + 1
    /\ UNCHANGED <<chatVars, dbVars, monVars, wlVars, cacheVars, runVars,
                   sessVars, parseVars, gwVars, extractVars, bundleVars, execVars, worldVars>>

NextAgent ==
    \E agent \in Intents, outs \in [1..(2 * MaxQueries) -> AgentSearchOutcomes],
       llm \in AgentLlmOutcomes : CallAgent(agent, outs, llm)

------------------------------------------------------------------------------
(* Mode agents with the recommendation cache around them *)

\* The raw queries of the requests; they all come from one session.
AgentQueries == {"q1", "q2"}
AgentSession == "s1"

\* cache.make_recommendation_key(intent, session_id, query=raw_query): the
\* prefix "rec" and a digest of the three values.
make_recommendation_key(intent, session_id, raw_query) ==
    <<"rec", intent, session_id, raw_query>>

\* The search outcomes given to a run: every search of the run fares alike.
UniformSearchOutcomes ==
    { [k \in 1..(2 * MaxQueries) |-> o] : o \in AgentSearchOutcomes }

\* An agent that stores whatever it is about to return.
StoresResult_Always(run) == TRUE

\* `await cache.set(cache_key, ....model_dump())` stands after the
\* recommendation object is built, inside the try; the error returns and the
\* except branches do not reach it.
StoresResult(run) == run.recommendations

\* A mode agent function from its cache lookup to its return: the returned
\* state and the cache as the call leaves it. The lookup is InMemoryCache.get
\* (an expired entry is deleted and counts as a miss); the store is
\* InMemoryCache.set with the default ttl.
cached_agent_run(agent, session_id, raw_query, outs, llm, store, t, run_no) ==
    LET cache_key == make_recommendation_key(agent, session_id, raw_query)
        present == cache_key \in DOMAIN store
        hit == present /\ ~is_expired(store[cache_key], t)
        after_get == IF present /\ ~hit THEN Without(store, cache_key) ELSE store
        body == agent_run(agent, outs, llm)
        built == [agent |-> agent, built_by |-> run_no]
    IN  IF hit
        THEN [ run |-> [ agent |-> agent, key |-> cache_key, cached |-> TRUE,
                         outs |-> <<>>, llm |-> "none", llm_calls |-> 0,
                         recommendations |-> TRUE, error |-> FALSE,
                         value |-> store[cache_key].value ],
               store |-> store ]
        ELSE [ run |-> [ agent |-> agent, key |-> cache_key, cached |-> FALSE,
                         outs |-> outs, llm |-> body.llm,
                         llm_calls |-> body.llm_calls,
                         recommendations |-> body.recommendations,
                         error |-> body.error,
                         value |-> IF body.recommendations THEN built
                                   ELSE [agent |-> "none", built_by |-> 0] ],
               store |-> IF StoresResult(body)
                         THEN [k \in DOMAIN after_get \cup {cache_key} |->
                                 IF k = cache_key
                                 THEN CacheEntry(built, cache_ttl_seconds, t)
                                 ELSE after_get[k]]
                         ELSE after_get ]

\* A call of a mode agent function by the graph.
CallCachedAgent(agent, raw_query, outs, llm) ==
    LET r == cached_agent_run(agent, AgentSession, raw_query, outs, llm,
                              cache, clock, nAgentRuns + 1) IN
    /\ nAgentRuns < MaxAgentRuns
    /\ lastAgentRun' = r.run
    /\ cache' = r.store
    /\ nAgentRuns' = nAgentRuns + 1
    /\ UNCHANGED <<clock, lastGet, lastSetValue, nGets, nCacheOps, chatVars,
                   dbVars, monVars, wlVars, runVars, sessVars, parseVars, gwVars,
                   extractVars, bundleVars, execVars, worldVars>>

\* Time passes between two chat requests: the ttl to the second, or a second
\* more.
AgentClockSteps == {cache_ttl_seconds, cache_ttl_seconds + 1}

AgentTick(d) ==
    /\ nCacheOps < MaxAgentTicks
    /\ clock' = clock + d
    /\ nCacheOps' = nCacheOps + 1
    /\ UNCHANGED <<cache, lastGet, lastSetValue, nGets, agentVars, chatVars,
                   dbVars, monVars, wlVars, runVars, sessVars, parseVars, gwVars,
                   extractVars, bundleVars, execVars, worldVars>>

NextCachedAgent ==
    \/ \E agent \in Intents, raw_query \in AgentQueries,
          outs \in UniformSearchOutcomes, llm \in AgentLlmOutcomes :
          CallCachedAgent(agent, raw_query, outs, llm)
    \/ \E d \in AgentClockSteps : AgentTick(d)

\* C25: for every mode agent, a call whose (intent, session_id, raw_query) has
\* an unexpired stored result returns that result with cached = true and makes
\* no catalog search and no model call; a result is stored only by a run that
\* built a recommendation, so a run that ends in an error writes nothing into
\* the cache and no error is served from it.
C25_CallStep ==
    nAgentRuns' = nAgentRuns + 1 =>
        LET run == lastAgentRun'
            stored == /\ run.key \in DOMAIN cache
                      /\ clock <= cache[run.key].expires_at
        IN
        /\ stored =>
              /\ run.cached
              /\ run.value = cache[run.key].value
              /\ run.outs = <<>>
              /\ run.llm_calls = 0
              /\ cache' = cache
        /\ run.cached => stored /\ run.recommendations /\ ~run.error
        /\ run.error =>
              \A k \in DOMAIN cache' : k \in DOMAIN cache /\ cache'[k] = cache[k]
        /\ \A k \in DOMAIN cache' :
              (k \notin DOMAIN cache \/ cache'[k] # cache[k]) =>
                  /\ k = run.key
                  /\ ~run.cached /\ run.recommendations /\ ~run.error
                  /\ cache'[k].value = run.value
        /\ \A k \in DOMAIN cache' : cache'[k].value.agent = k[2]

C25_CachedResultServedErrorsNotStored == [][C25_CallStep]_vars

\* A second call with the triple of an earlier successful run, made while the
\* entry is still within its ttl, was served from the cache.
C25_Witness ==
    /\ nAgentRuns = 2
    /\ clock = cache_ttl_seconds
    /\ lastAgentRun.cached
    /\ lastAgentRun.value.built_by = 1
    /\ lastAgentRun.llm_calls = 0

------------------------------------------------------------------------------
(* Bundle agent: the combinations built from the model's reply *)

\* total_budget = 1000000 when the requirements carry none.
DEFAULT_TOTAL_BUDGET == 1000000

\* requirements.items of the runs: two item categories.
BundleCategories == <<"A", "B">>

\* What the two searches can return, as lists of product ids: category A gives
\* three products, one, or nothing (also the result of a failed search);
\* category B gives one product, that product and one that A lists too, or
\* nothing.
SearchResultsA == { <<"a1", "a2", "a3">>, <<"a1">>, <<>> }
SearchResultsB == { <<"b1">>, <<"b1", "a2">>, <<>> }

\* The catalog prices of the products: a1 and b1 vary, a2 and a3 are fixed.
CatalogPrices ==
    { [a1 |-> pa, a2 |-> 2, a3 |-> MaxPrice, b1 |-> pb] :
        pa \in {1, 2}, pb \in {1, MaxPrice} }

\* requirements.budget of the runs: None, a single amount (total_budget 3), or
\* a range (max_price 4, no total_budget).
BundleBudgets ==
    { [kind |-> "none", total_budget |-> NULL, max_price |-> NULL],
      [kind |-> "total", total_budget |-> 3, max_price |-> 4],
      [kind |-> "range", total_budget |-> NULL, max_price |-> 4] }

\* The items of a combination of the model's reply: a category and a product
\* id, which may name no product of the search results.
ItemData ==
    { [item_category |-> "A", selected_product_id |-> "a1"],
      [item_category |-> "A", selected_product_id |-> "a2"],
      [item_category |-> "B", selected_product_id |-> "b1"],
      [item_category |-> "B", selected_product_id |-> "zz"] }

\* A combination of the reply: two items and the total the model states for
\* them, 9, which is no sum of catalog prices.
ComboData == [items : [1..2 -> ItemData], total_price : {9}]

\* llm_result.get("combinations", []) of a reply that parsed.
LlmCombinations == UNION { [1..n -> ComboData] : n \in 0..MaxCombos }

NoBundle ==
    [ called |-> FALSE, products_by_category |-> [c \in {} |-> <<>>],
      price |-> [p \in {} |-> 0], budget |-> "none", llm |-> <<>>,
      ok |-> FALSE, total_budget |-> 0, combinations |-> <<>> ]

IdleBundle == lastBundle = NoBundle

RECURSIVE SumPrices(_)
SumPrices(bundle_items) ==
    IF bundle_items = <<>> THEN 0
    ELSE Head(bundle_items).price + SumPrices(Tail(bundle_items))

\* A total taken from the model's reply.
ComboTotal_Reported(bundle_items, combo_data) == combo_data.total_price

\* total_price starts at 0 and grows by product.price for every selected
\* product found in all_products; combo_data's own total is not read.
ComboTotal(bundle_items, combo_data) == SumPrices(bundle_items)

\* total_budget = requirements.budget.total_budget or requirements.budget.max_price,
\* the default when that is falsy.
EffectiveBudget(b) ==
    LET given == IF b.kind = "none" THEN NULL
                 ELSE IF b.total_budget # NULL /\ b.total_budget # 0 THEN b.total_budget
                 ELSE b.max_price
    IN  IF given = NULL \/ given = 0 THEN DEFAULT_TOTAL_BUDGET ELSE given

\* The first n elements of a sequence.
FirstN(seq, n) == SubSeq(seq, 1, IF Len(seq) < n THEN Len(seq) ELSE n)

\* The BundleItem built for one item of a combination, none when the product
\* id is not in all_products: the alternatives are the first two products of
\* products_by_category[category] with another id.
BundleItemsOf(item_data, products_by_category, price) ==
    LET category == item_data.item_category
        product_id == item_data.selected_product_id
        all_products ==
            UNION { { products_by_category[c][k] : k \in 1..Len(products_by_category[c]) } :
                    c \in DOMAIN products_by_category }
        listed == IF category \in DOMAIN products_by_category
                  THEN products_by_category[category] ELSE <<>>
    IN  IF product_id \in all_products
        THEN << [ item_category |-> category, product |-> product_id,
                  price |-> price[product_id],
                  alternatives |->
                      FirstN(SelectSeq(listed, LAMBDA alt : alt # product_id), 2) ] >>
        ELSE <<>>

\* The BundleCombination built for one combination of the reply; items = <<>>
\* when none of its products was found (the combination is then dropped).
CombinationOf(combo_data, products_by_category, price, total_budget) ==
    LET bundle_items ==
            BundleItemsOf(combo_data.items[1], products_by_category, price)
            \o BundleItemsOf(combo_data.items[2], products_by_category, price)
        total_price == ComboTotal(bundle_items, combo_data)
    IN  [ items |-> bundle_items, total_price |-> total_price,
          budget_fit |-> total_price <= total_budget ]

\* The default combination built when the reply gave none: the first product
\* of every category that has products, products[1:3] as its alternatives.
DefaultCombination(products_by_category, price, total_budget) ==
    LET ItemOf(c) ==
            IF products_by_category[c] = <<>> THEN <<>>
            ELSE << [ item_category |-> c, product |-> products_by_category[c][1],
                      price |-> price[products_by_category[c][1]],
                      alternatives |->
                          FirstN(Tail(products_by_category[c]), 2) ] >>
        bundle_items == ItemOf(BundleCategories[1]) \o ItemOf(BundleCategories[2])
        total_price == SumPrices(bundle_items)
    IN  [ items |-> bundle_items, total_price |-> total_price,
          budget_fit |-> total_price <= total_budget ]

\* The field constraints of the result models: BundleCombination.items has
\* min_length 2, BundleRecommendation.combinations min_length 2 and
\* max_length 3; a violation raises inside the try and the agent returns an
\* error.
ValidBundle(combinations) ==
    /\ \A k \in 1..Len(combinations) : Len(combinations[k].items) >= 2
    /\ Len(combinations) >= 2
    /\ Len(combinations) <= 3

\* bundle_agent after a cache miss and a model reply that parsed.
bundle_agent(products_by_category, price, given_budget, llm_combinations) ==
    LET total_budget == EffectiveBudget(given_budget)
        none_found == \A c \in DOMAIN products_by_category :
                          products_by_category[c] = <<>>
        built == [k \in 1..Len(llm_combinations) |->
                    CombinationOf(llm_combinations[k], products_by_category,
                                  price, total_budget)]
        kept == SelectSeq(built, LAMBDA c : c.items # <<>>)
        default == DefaultCombination(products_by_category, price, total_budget)
        combinations == IF kept # <<>> THEN kept
                        ELSE IF default.items # <<>> THEN <<default>> ELSE <<>>
        ok == ~none_found /\ ValidBundle(combinations)
    IN  [ called |-> TRUE, products_by_category |-> products_by_category,
          price |-> price, budget |-> given_budget.kind, llm |-> llm_combinations,
          ok |-> ok, total_budget |-> total_budget,
          combinations |-> IF ok THEN combinations ELSE <<>> ]

\* One run of bundle_agent per behaviour.
CallBundleAgent(resA, resB, price, given_budget, llm_combinations) ==
    /\ ~lastBundle.called
    /\ lastBundle' = bundle_agent([c \in {"A", "B"} |-> IF c = "A" THEN resA ELSE resB],
                                  price, given_budget, llm_combinations)
    /\ UNCHANGED <<chatVars, dbVars, monVars, wlVars, cacheVars, runVars,
                   sessVars, parseVars, agentVars, gwVars, extractVars, execVars, worldVars>>

NextBundle ==
    /\ ~lastBundle.called
    /\ \E resA \in SearchResultsA, resB \in SearchResultsB, price \in CatalogPrices,
          given_budget \in BundleBudgets, llm_combinations \in LlmCombinations :
           CallBundleAgent(resA, resB, price, given_budget, llm_combinations)

\* C26: in every combination of a returned bundle recommendation, total_price is
\* the sum of the catalog prices of the products selected in it (the total the
\* model stated is ignored), budget_fit is (total_price <= the total budget in
\* effect, 1,000,000 when none was given), and every item carries at most two
\* alternatives, all from the search results of the item's own category and
\* none of them the selected product.
C26_BundleTotalsFromCatalog ==
    lastBundle.ok =>
        LET b == lastBundle
            budget_in_effect ==
                CASE b.budget = "total" -> 3
                  [] b.budget = "range" -> 4
                  [] OTHER -> 1000000
        IN
        \A k \in 1..Len(b.combinations) :
            LET combo == b.combinations[k]
                CatalogSum[n \in 0..Len(combo.items)] ==
                    IF n = 0 THEN 0
                    ELSE CatalogSum[n - 1] + b.price[combo.items[n].product]
            IN
            /\ combo.total_price = CatalogSum[Len(combo.items)]
            /\ combo.budget_fit <=> (combo.total_price <= budget_in_effect)
            /\ \A n \in 1..Len(combo.items) :
                  LET item == combo.items[n]
                      listed == b.products_by_category[item.item_category]
                  IN
                  /\ Len(item.alternatives) <= 2
                  /\ \A j \in 1..Len(item.alternatives) :
                        /\ item.alternatives[j] # item.product
                        /\ \E m \in 1..Len(listed) : listed[m] = item.alternatives[j]

\* A returned recommendation with a combination over the budget and an item
\* with two alternatives.
C26_Witness ==
    /\ lastBundle.ok
    /\ lastBundle.budget = "total"
    /\ \E k \in 1..Len(lastBundle.combinations) :
          /\ ~lastBundle.combinations[k].budget_fit
          /\ lastBundle.combinations[k].total_price = 5
          /\ Len(lastBundle.combinations[k].items[1].alternatives) = 2
    /\ \E k \in 1..Len(lastBundle.combinations) :
          lastBundle.combinations[k].budget_fit

------------------------------------------------------------------------------
(* Catalog gateway: NaverShoppingClient.search under its retry decorator *)

\* stop=stop_after_attempt(3)
stop_after_attempt == 3

\* What one HTTP attempt gives: a status code, or an httpx exception.
HttpAnswers == {"200", "429", "401", "500", "timeout"}

\* The titles the upstream puts on an item, character by character, with the
\* <b> and </b> marks it sets around the words of the query: a plain one, a
\* second-hand one (jung-go), a second-hand one with a mark inside the word,
\* and a rental one (ren-tal).
UpstreamTitles ==
    { <<"no", "teu", "buk">>,
      <<"jung", "go", "no", "teu", "buk">>,
      <<"jung", "<b>", "go", "</b>", "no", "teu", "buk">>,
      <<"<b>", "no", "teu", "buk", "</b>", "ren", "tal">> }

\* The items of an upstream answer: title and lprice.
UpstreamItems == [title : UpstreamTitles, lprice : 1..MaxPrice]

\* data.get("items", []) of a 200 answer.
UpstreamData == UNION { [1..n -> UpstreamItems] : n \in 0..MaxItems }

\* display: small values, and one beyond half of the upstream's maximum.
DisplayArgs == 1..MaxDisplay \cup {60}

\* min_price, max_price: None or a price.
PriceArgs == {NULL, 2}

SearchArgs ==
    [ display : DisplayArgs, exclude_used : BOOLEAN, exclude_rental : BOOLEAN,
      min_price : PriceArgs, max_price : PriceArgs ]

NoSearchCall ==
    [ display |-> 1, exclude_used |-> TRUE, exclude_rental |-> TRUE,
      min_price |-> NULL, max_price |-> NULL, request_display |-> 0 ]

NoSearchReturn == [ data |-> <<>>, items |-> <<>> ]

IdleGateway ==
    /\ gwAttempts = <<>>
    /\ gwResult = [pc |-> "idle", error |-> "none"]
    /\ nSearches = 0
    /\ gwCall = NoSearchCall
    /\ gwReturn = NoSearchReturn

\* used_keywords and rental_keywords of _should_exclude.
used_keywords ==
    { <<"jung", "go">>, <<"ri", "peo">>, <<"ban", "pum">>, <<"jae", "go">>,
      <<"jeon", "si">> }

rental_keywords ==
    { <<"ren", "tal">>, <<"ren", "teu">>, <<"dae", "yeo">>, <<"wol", "nap">> }

\* _clean_html(text): re.sub(r"<[^>]+>", "", text) takes the marks out.
clean_html(text) == SelectSeq(text, LAMBDA c : c \notin {"<b>", "</b>"})

\* _should_exclude(item, exclude_used, exclude_rental): the keywords are looked
\* for in item["title"] as the upstream sent it, marks included.
should_exclude(item, exclude_used, exclude_rental) ==
    \/ exclude_used /\ \E kw \in used_keywords : Contains(item.title, kw)
    \/ exclude_rental /\ \E kw \in rental_keywords : Contains(item.title, kw)

\* `if min_price and price < min_price: continue`, and the same for max_price:
\* None and 0 are both falsy.
OutOfBand(price, min_price, max_price) ==
    \/ min_price # NULL /\ min_price # 0 /\ price < min_price
    \/ max_price # NULL /\ max_price # 0 /\ price > max_price

\* _parse_product(item): the title is cleaned, the price is int(lprice).
parse_product(item) == [ title |-> clean_html(item.title), price |-> item.lprice ]

\* The loop of search over the items of the answer: skip the excluded and the
\* out-of-band ones, append the others, stop once display items are collected.
RECURSIVE FilterItems(_, _, _)
FilterItems(data, args, collected) ==
    IF data = <<>> THEN collected
    ELSE LET item == Head(data) IN
         IF \/ should_exclude(item, args.exclude_used, args.exclude_rental)
            \/ OutOfBand(item.lprice, args.min_price, args.max_price)
         THEN FilterItems(Tail(data), args, items)
         ELSE LET appended == Append(collected, parse_product(item)) IN
              IF Len(appended) >= args.display THEN appended
              ELSE FilterItems(Tail(data), args, appended)

\* params["display"] = min(display * 2, 100)
RequestDisplay(display) == IF display * 2 < 100 THEN display * 2 ELSE 100

\* The exception the body of search raises for an answer, "none" when it goes
\* on to parse the items: NaverShoppingError for 429, 401 and every other
\* non-200 status, the httpx exception for a failed request.
SearchRaises(answer) ==
    CASE answer = "200" -> "none"
      [] answer = "429" -> "NaverShoppingError: rate limit"
      [] answer = "401" -> "NaverShoppingError: auth"
      [] answer = "timeout" -> "httpx.TimeoutException"
      [] OTHER -> "NaverShoppingError: status"

\* @retry(stop=stop_after_attempt(3), wait=..., reraise=True): no retry= argument
\* is given, so every exception is retried until the stop condition holds.
RetryAgain(exception, attempt_number) == attempt_number < stop_after_attempt

\* A caller calls search.
SearchCall(args) ==
    /\ gwResult.pc # "trying"
    /\ nSearches < MaxSearches
    /\ nSearches' = nSearches + 1
    /\ gwAttempts' = <<>>
    /\ gwResult' = [pc |-> "trying", error |-> "none"]
    /\ gwCall' = [ display |-> args.display,
                   exclude_used |-> args.exclude_used,
                   exclude_rental |-> args.exclude_rental,
                   min_price |-> args.min_price, max_price |-> args.max_price,
                   request_display |-> RequestDisplay(args.display) ]
    /\ gwReturn' = NoSearchReturn
    /\ UNCHANGED <<chatVars, dbVars, monVars, wlVars, cacheVars, runVars,
                   sessVars, parseVars, agentVars, extractVars, bundleVars, execVars, worldVars>>

\* One attempt of the call: the HTTP request and what the decorator does with
\* its outcome: return the result, wait and try again, or re-raise the last
\* exception to the caller (reraise=True).
SearchAttempt(answer, data) ==
    LET exception == SearchRaises(answer)
        attempt_number == Len(gwAttempts) + 1
    IN
    /\ gwResult.pc = "trying"
    /\ gwAttempts' = Append(gwAttempts, answer)
    /\ gwResult' =
         IF exception = "none" THEN [pc |-> "returned", error |-> "none"]
         ELSE IF RetryAgain(exception, attempt_number)
              THEN [pc |-> "trying", error |-> "none"]
         ELSE [pc |-> "raised", error |-> exception]
    /\ gwReturn' =
         IF exception = "none"
         THEN [ data |-> data, items |-> FilterItems(data, gwCall, <<>>) ]
         ELSE NoSearchReturn
    /\ UNCHANGED <<nSearches, gwCall, chatVars, dbVars, monVars, wlVars, cacheVars,
                   runVars, sessVars, parseVars, agentVars, extractVars, bundleVars, execVars, worldVars>>

NextGateway ==
    \/ \E args \in SearchArgs : SearchCall(args)
    \/ \E answer \in HttpAnswers \ {"200"} : SearchAttempt(answer, <<>>)
    \/ \E data \in UpstreamData : SearchAttempt("200", data)

C20_RetryOn429FatalOn401 ==
    LET n == Len(gwAttempts) IN
    /\ n <= stop_after_attempt
    /\ \A k \in 1..n : gwAttempts[k] = "401" =>
          /\ k = n
          /\ gwResult = [pc |-> "raised", error |-> SearchRaises("401")]
    /\ \A k \in 1..n : gwAttempts[k] = "429" /\ k < stop_after_attempt =>
          k < n \/ gwResult.pc = "trying"
    /\ gwResult.pc = "raised" => gwResult.error = SearchRaises(gwAttempts[n])
    /\ gwResult.pc = "returned" => gwAttempts[n] = "200"

------------------------------------------------------------------------------
(* Requirement extraction: extract_requirements on what the parser found *)

\* What parse_user_input can hand over. budget: None, a BudgetRange from the
\* range pattern (min_price and max_price, no total_budget), or one from a
\* single amount (all three). recipient: None, a RecipientInfo without a
\* relation, or one with a relation.
BudgetKinds == {"none", "range", "total"}
RecipientKinds == {"none", "norel", "rel"}
ItemCounts == 0..MaxItemCount

NoExtract ==
    [ called |-> FALSE, intent |-> "VALUE", budget |-> "none", nitems |-> 0,
      recipient |-> "none", clarify_count |-> 0, missing_fields |-> <<>>,
      clarification_needed |-> FALSE, clarification_field |-> "none" ]

IdleExtract == lastExtract = NoExtract

\* extract_requirements from the Requirements it builds to what it returns.
extract_requirements(intent, parsed) ==
    LET r == NewRequirements(parsed)
        missing == get_missing_fields(r, intent)
        needed == ClarificationNeeded(missing, r)
    IN  [ called |-> TRUE, intent |-> intent, budget |-> r.budget,
          nitems |-> r.nitems, recipient |-> r.recipient,
          clarify_count |-> r.clarify_count,
          missing_fields |-> missing,
          clarification_needed |-> needed,
          clarification_field |-> IF needed /\ missing # <<>> THEN missing[1]
                                  ELSE "none" ]

CallExtractRequirements(intent, parsed) ==
    /\ lastExtract' = extract_requirements(intent, parsed)
    /\ UNCHANGED <<chatVars, dbVars, monVars, wlVars, cacheVars, runVars,
                   sessVars, parseVars, agentVars, gwVars, bundleVars, execVars, worldVars>>

NextExtract ==
    \E intent \in Intents,
       parsed \in [budget : BudgetKinds, nitems : ItemCounts, recipient : RecipientKinds] :
        CallExtractRequirements(intent, parsed)

\* The field a missing_fields entry is about.
FieldOf(name) ==
    CASE name \in {"recipient", "recipient.relation"} -> "recipient"
      [] name \in {"budget", "budget.total_budget"} -> "budget"
      [] OTHER -> name

\* C22: for every intent, item count, budget and recipient, missing_fields is:
\* GIFT - recipient when the relation is absent, then budget when there is no
\* budget; VALUE and REVIEW - items when there is none; BUNDLE - items when
\* fewer than two, and budget only when neither total_budget nor max_price is
\* present; TREND - empty. A clarification is needed exactly when the list is
\* non-empty and clarify_count < 2, and it asks about the first listed field.
C22_MissingFieldsPerIntent ==
    lastExtract.called =>
        LET e == lastExtract
            fields == [k \in 1..Len(e.missing_fields) |-> FieldOf(e.missing_fields[k])]
            expected ==
                CASE e.intent = "GIFT" ->
                        (IF e.recipient # "rel" THEN <<"recipient">> ELSE <<>>)
                        \o (IF e.budget = "none" THEN <<"budget">> ELSE <<>>)
                  [] e.intent \in {"VALUE", "REVIEW"} ->
                        IF e.nitems = 0 THEN <<"items">> ELSE <<>>
                  [] e.intent = "BUNDLE" ->
                        (IF e.nitems < 2 THEN <<"items">> ELSE <<>>)
                        \o (IF e.budget = "none" THEN <<"budget">> ELSE <<>>)
                  [] OTHER -> <<>>
        IN
        /\ fields = expected
        /\ e.clarification_needed <=> (e.missing_fields # <<>> /\ e.clarify_count < 2)
        /\ e.clarification_needed => e.clarification_field = e.missing_fields[1]

------------------------------------------------------------------------------
(* Overlapping monitoring executions *)

\* The three callers of check_all_wishlist_prices: the 6-hour interval job, the
\* 00:00 UTC cron job and the manual trigger.
ExecOrigins == {"interval", "cron", "manual"}

\* The database the executions start from: the monitor's initial database, or a
\* row that has aged: created at price 1 on day 0, found at price 2 by the check
\* of day 1 (which stored current_price 2, lowest_price_90days 1 and the second
\* price_history row), and left alone until day 91, when the first row has
\* left the 90-day window.
InitOverlapDb ==
    \/ InitDb
    \/ /\ now = Days(LOWEST_WINDOW_DAYS) + Days(1)
       /\ \E prof \in UserProfiles : users = [u \in UserIds |-> prof]
       /\ items = [i \in {1} |->
                     [NewWishlistItem("u1", i, 2, NULL) EXCEPT
                         !.lowest_price_90days = 1]]
       /\ history = << [item |-> 1, price |-> 1, recorded_at |-> 0],
                       [item |-> 1, price |-> 2, recorded_at |-> Days(1)] >>

NoExec == [ pc |-> "idle", loaded |-> NULL, item |-> NULL, rows |-> <<>> ]

IdleExec == execs = [e \in ExecOrigins |-> NoExec]

StartedExecs == { e \in ExecOrigins : execs[e].pc # "idle" }

\* session.commit(): the columns of the session's copy that differ from the row
\* as the session read it are written to the stored row.
CommitItem(stored, loaded, item) ==
    [ c \in DOMAIN stored |-> IF item[c] # loaded[c] THEN item[c] ELSE stored[c] ]

\* check_all_wishlist_prices up to its first await answered: the execution opens
\* its own session and loads the notification-enabled items.
ExecLoad(e) ==
    /\ execs[e].pc = "idle"
    /\ Cardinality(StartedExecs) < MaxExecs
    /\ 1 \in DOMAIN items
    /\ execs' = [execs EXCEPT ![e] =
                   IF items[1].notification_enabled
                   THEN [ pc |-> "loaded", loaded |-> items[1],
                          item |-> items[1], rows |-> <<>> ]
                   ELSE [ NoExec EXCEPT !.pc = "done" ]]
    /\ UNCHANGED <<dbVars, monVars, chatVars, wlVars, cacheVars, runVars, sessVars,
                   parseVars, agentVars, gwVars, extractVars, bundleVars, worldVars>>

\* _check_item_price from the answer of naver_client.search to the first await
\* of send_price_alert: the comparison with the session's copy, the history row
\* added to the session, the lowest price, the alert test and the cooldown test.
ExecCheck(e, search) ==
    LET x == execs[e]
        current_price == search.price
        row    == [item |-> 1, price |-> current_price, recorded_at |-> now]
        lowest == calculate_lowest_90days(history, 1, current_price, now)
        item1  == [x.item EXCEPT !.current_price = current_price,
                                 !.lowest_price_90days = lowest]
        invoke == should_send_alert(item1, current_price, lowest)
                  /\ users[x.item.user].is_active
    IN
    /\ x.pc = "loaded"
    /\ execs' = [execs EXCEPT ![e] =
                   IF search.kind # "items" \/ ~PriceChanged(x.item, search.price)
                   THEN [x EXCEPT !.pc = "finishing"]
                   ELSE [x EXCEPT !.item = item1, !.rows = <<row>>,
                                  !.pc = IF invoke /\ should_send_notification(item1, now)
                                         THEN "sending" ELSE "finishing"]]
    /\ UNCHANGED <<dbVars, monVars, chatVars, wlVars, cacheVars, runVars, sessVars,
                   parseVars, agentVars, gwVars, extractVars, bundleVars, worldVars>>

\* send_price_alert from the channels' answers on: the delivery, and on success
\* the write of last_notified_at and the commit of the execution's session.
ExecSend(e, kres, eres) ==
    LET x == execs[e]
        r == send_price_alert(users[x.item.user], x.item, now, kres, eres)
    IN
    /\ x.pc = "sending"
    /\ deliveries' = Delivered(deliveries, 1, now, r)
    /\ lastAlert' = AlertRecord(1, r)
    /\ IF r.success
       THEN /\ items' = [items EXCEPT ![1] = CommitItem(items[1], x.loaded, r.item)]
            /\ history' = history \o x.rows
            /\ execs' = [execs EXCEPT ![e] =
                           [ pc |-> "finishing", loaded |-> r.item,
                             item |-> r.item, rows |-> <<>> ]]
       ELSE /\ UNCHANGED <<items, history>>
            /\ execs' = [execs EXCEPT ![e].pc = "finishing"]
    /\ UNCHANGED <<now, users, nOps, nChecks, nAlerts, lastCheck,
                   chatVars, wlVars, cacheVars, runVars, sessVars,
                   parseVars, agentVars, gwVars, extractVars, bundleVars, worldVars>>

\* The commit that ends check_all_wishlist_prices.
ExecFinish(e) ==
    LET x == execs[e] IN
    /\ x.pc = "finishing"
    /\ items' = [items EXCEPT ![1] = CommitItem(items[1], x.loaded, x.item)]
    /\ history' = history \o x.rows
    /\ execs' = [execs EXCEPT ![e] = [ NoExec EXCEPT !.pc = "done" ]]
    /\ UNCHANGED <<now, users, monVars, chatVars, wlVars, cacheVars, runVars, sessVars,
                   parseVars, agentVars, gwVars, extractVars, bundleVars, worldVars>>

NextOverlap ==
    \/ \E e \in ExecOrigins : ExecLoad(e)
    \/ \E e \in ExecOrigins, search \in SearchOutcomes : ExecCheck(e, search)
    \/ \E e \in ExecOrigins, kres \in ChannelResults, eres \in ChannelResults :
          ExecSend(e, kres, eres)
    \/ \E e \in ExecOrigins : ExecFinish(e)

\* C27: when executions of the monitoring body overlap, a wishlist item still
\* receives at most one notification within any 24-hour window: no two
\* deliveries for the same item are less than MIN_NOTIFICATION_INTERVAL apart.
C27_OverlapAtMostOneAlertPerDay ==
    \A j \in 1..Len(deliveries), k \in 1..Len(deliveries) :
        (j < k /\ deliveries[j].item = deliveries[k].item)
            => deliveries[k].at - deliveries[j].at >= MIN_NOTIFICATION_INTERVAL

------------------------------------------------------------------------------
(* The periodic job over time *)

IdleWorld ==
    /\ catalog = NULL
    /\ channelUp = FALSE
    /\ sweeps = 0

\* One wishlist row of an active user with both channels, the catalog at the
\* stored price, the channels working or not.
InitRecheck ==
    /\ now = 0
    /\ users = [u \in UserIds |-> UserRow(TRUE, TRUE, TRUE, TRUE, TRUE, TRUE)]
    /\ items = [i \in {1} |-> NewWishlistItem("u1", i, InitPrice, NULL)]
    /\ history = << [item |-> 1, price |-> InitPrice, recorded_at |-> 0] >>
    /\ catalog = InitPrice
    /\ channelUp \in BOOLEAN
    /\ sweeps = 0

\* The catalog's price for the item changes.
CatalogChange(p) ==
    /\ p # catalog
    /\ Len(history) < MaxHistory
    /\ catalog' = p
    /\ UNCHANGED <<channelUp, sweeps, dbVars, monVars, chatVars, wlVars, cacheVars,
                   runVars, sessVars, parseVars, agentVars, gwVars, extractVars,
                   bundleVars, execVars>>

\* The channels start to deliver.
ChannelRepair ==
    /\ ~channelUp
    /\ channelUp' = TRUE
    /\ UNCHANGED <<catalog, sweeps, dbVars, monVars, chatVars, wlVars, cacheVars,
                   runVars, sessVars, parseVars, agentVars, gwVars, extractVars,
                   bundleVars, execVars>>

\* A day passes.
DayPasses ==
    /\ now < Days(MaxDays)
    /\ now' = now + Days(1)
    /\ UNCHANGED <<users, items, history, worldVars, monVars, chatVars, wlVars,
                   cacheVars, runVars, sessVars, parseVars, agentVars, gwVars,
                   extractVars, bundleVars, execVars>>

\* What both channels answer.
ChannelAnswer == IF channelUp THEN "ok" ELSE "fail"

\* One run of the periodic job (_run_price_monitoring): check_all_wishlist_prices
\* over the stored item, the catalog answering its price.
ScheduledCheck ==
    LET search == [kind |-> "items", price |-> catalog]
        c == check_item_price(1, items[1], history, users[items[1].user], now,
                              search, ChannelAnswer, ChannelAnswer)
    IN
    /\ items[1].notification_enabled
    /\ items' = [items EXCEPT ![1] = c.item]
    /\ history' = history \o c.rows
    /\ deliveries' = IF c.invoked THEN Delivered(deliveries, 1, now, c.alert)
                     ELSE deliveries
    /\ lastAlert' = IF c.invoked THEN AlertRecord(1, c.alert) ELSE lastAlert
    /\ lastCheck' = [ item |-> 1, outcome |-> search.kind, price |-> search.price,
                      updated |-> c.updated, invoked |-> c.invoked,
                      alert_sent |-> c.alert_sent ]
    /\ sweeps' = (sweeps + 1) % 2
    /\ UNCHANGED <<now, users, nOps, nChecks, nAlerts, catalog, channelUp,
                   chatVars, wlVars, cacheVars, runVars, sessVars, parseVars,
                   agentVars, gwVars, extractVars, bundleVars, execVars>>

NextRecheck ==
    \/ \E p \in Prices : CatalogChange(p)
    \/ ChannelRepair
    \/ DayPasses
    \/ ScheduledCheck

\* The item's alert condition at the catalog's price.
AlertConditionHolds ==
    should_send_alert(items[1], catalog,
                      calculate_lowest_90days(history, 1, catalog, now))

\* The last run invoked the dispatcher for the item and nothing was delivered:
\* both channels failed, or the cooldown suppressed it.
DispatchUndelivered == lastCheck.invoked /\ ~lastCheck.alert_sent

\* C28: if the item's alert condition holds and the dispatch for it was not
\* delivered, then, while the condition keeps holding (the item enabled, the owner
\* active, a channel working in the end, a day still to pass), a later scheduled
\* run delivers a notification for the item, even when the catalog price does
\* not change again.
C28_UndeliveredAlertIsRetried ==
    (AlertConditionHolds /\ DispatchUndelivered /\ now < Days(MaxDays))
        ~> (lastCheck.alert_sent \/ ~AlertConditionHolds)

\* C29: in every reachable state, every wishlist item whose lowest_price_90days
\* is set has lowest_price_90days <= current_price.
C29_LowestAtMostCurrent ==
    \A i \in DOMAIN items :
        items[i].lowest_price_90days # NULL
            => items[i].lowest_price_90days <= items[i].current_price

\* The counters a finished run returns, and the rows with notifications
\* disabled: never attempted by a run and as the initial database holds them.
C30_Counters ==
    /\ \A r \in 1..Len(runs) :
          runs[r].pc = "done" =>
              LET res == runs[r].results IN
              /\ res.checked + res.errors = Len(runs[r].loaded)
              /\ res.updated <= res.checked
              /\ res.alerts_sent <= res.updated
    /\ \A i \in DOMAIN items :
          ~items[i].notification_enabled =>
              /\ \A r \in 1..Len(runs) :
                    \A k \in 1..Len(runs[r].attempted) : runs[r].attempted[k] # i
              /\ items[i] = [NewWishlistItem(items[i].user, i, InitPrice, NULL)
                                EXCEPT !.notification_enabled = FALSE]
              /\ \A k \in 1..Len(history) :
                    history[k].item = i => history[k].recorded_at = 0

\* An iteration whose catalog lookup failed with a gateway error: the item is
\* counted in checked and not in errors, nothing is updated, no alert is sent.
C30_GatewayErrorStep ==
    \A r \in 1..Len(runs) :
        runs'[r].gateway_errors = runs[r].gateway_errors + 1 =>
            /\ Len(runs'[r].attempted) = Len(runs[r].attempted) + 1
            /\ runs'[r].results =
                  [runs[r].results EXCEPT !.checked = runs[r].results.checked + 1]
            /\ items' = items
            /\ history' = history

\* C30: for every completed run of checkAll, checked + errors is the number of
\* notification-enabled items loaded at the start of the run, updated <= checked
\* and alerts_sent <= updated; an item whose catalog lookup fails with a gateway
\* error is counted in checked, not in errors, with no update and no alert; items
\* with notification_enabled = false are not counted and are left unchanged.
C30_RunCountersAddUp ==
    [][C30_Counters' /\ C30_GatewayErrorStep]_vars

\* A finished run over the two enabled items: the first was updated and its
\* alert delivered, the lookup of the second failed with a gateway error; the
\* run returns checked 2, updated 1, alerts_sent 1, errors 0.
C30_Witness ==
    \E r \in 1..Len(runs) :
        /\ runs[r].pc = "done"
        /\ runs[r].attempted = <<1, 2>>
        /\ runs[r].gateway_errors = 1
        /\ runs[r].results = [checked |-> 2, updated |-> 1, alerts_sent |-> 1,
                              errors |-> 0]
        /\ items[1].current_price = InitPrice - 1
        /\ items[2].current_price = InitPrice

------------------------------------------------------------------------------
(* Specifications *)

\* The chat pipeline.
InitOfChat == InitChat /\ IdleDb /\ IdleMon /\ IdleWl /\ InitCache /\ IdleRun /\ InitSession /\ IdleParser /\ IdleAgent /\ IdleGateway /\ IdleExtract /\ IdleBundle /\ IdleExec /\ IdleWorld
SpecChat == InitOfChat /\ [][NextChat]_vars

\* The price monitor and the notification manager over a stored wishlist item.
InitOfMonitor == InitDb /\ IdleMon /\ IdleWl /\ InitChat /\ InitCache /\ IdleRun /\ InitSession /\ IdleParser /\ IdleAgent /\ IdleGateway /\ IdleExtract /\ IdleBundle /\ IdleExec /\ IdleWorld
SpecMonitor == InitOfMonitor /\ [][NextMonitor]_vars

\* Concurrent create and delete requests of the wishlist API.
InitOfWishlist == InitWishlistDb /\ IdleWl /\ IdleMon /\ InitChat /\ InitCache /\ IdleRun /\ InitSession /\ IdleParser /\ IdleAgent /\ IdleGateway /\ IdleExtract /\ IdleBundle /\ IdleExec /\ IdleWorld
SpecWishlist == InitOfWishlist /\ [][NextWishlist]_vars

\* The TTL cache.
InitOfCache == InitCache /\ IdleDb /\ IdleMon /\ IdleWl /\ InitChat /\ IdleRun /\ InitSession /\ IdleParser /\ IdleAgent /\ IdleGateway /\ IdleExtract /\ IdleBundle /\ IdleExec /\ IdleWorld
SpecCache == InitOfCache /\ [][NextCache]_vars

\* The monitoring runs and the manual trigger.
InitOfRun == InitRunDb /\ IdleMon /\ IdleWl /\ InitChat /\ InitCache /\ IdleRun /\ InitSession /\ IdleParser /\ IdleAgent /\ IdleGateway /\ IdleExtract /\ IdleBundle /\ IdleExec /\ IdleWorld
SpecRun == InitOfRun /\ [][NextRun]_vars

\* The session store under concurrent chat requests.
InitOfSession == InitSession /\ IdleDb /\ IdleMon /\ IdleWl /\ InitChat /\ InitCache /\ IdleRun /\ IdleParser /\ IdleAgent /\ IdleGateway /\ IdleExtract /\ IdleBundle /\ IdleExec /\ IdleWorld
SpecSession == InitOfSession /\ [][NextSession]_vars

\* The text parser on bounded texts.
InitOfParser == InitParser /\ IdleDb /\ IdleMon /\ IdleWl /\ InitChat /\ InitCache /\ IdleRun /\ InitSession /\ IdleAgent /\ IdleGateway /\ IdleExtract /\ IdleBundle /\ IdleExec /\ IdleWorld
SpecParser == InitOfParser /\ [][NextParser]_vars

\* The mode agent functions.
InitOfAgent == IdleAgent /\ IdleParser /\ IdleDb /\ IdleMon /\ IdleWl /\ InitChat /\ InitCache /\ IdleRun /\ InitSession /\ IdleGateway /\ IdleExtract /\ IdleBundle /\ IdleExec /\ IdleWorld
SpecAgent == InitOfAgent /\ [][NextAgent]_vars

\* The catalog gateway's search under retry.
InitOfGateway == IdleGateway /\ IdleAgent /\ IdleParser /\ IdleDb /\ IdleMon /\ IdleWl /\ InitChat /\ InitCache /\ IdleRun /\ InitSession /\ IdleExtract /\ IdleBundle /\ IdleExec /\ IdleWorld
SpecGateway == InitOfGateway /\ [][NextGateway]_vars

\* extract_requirements on every combination of what the parser can find.
InitOfExtract == IdleExtract /\ IdleGateway /\ IdleAgent /\ IdleParser /\ IdleDb /\ IdleMon /\ IdleWl /\ InitChat /\ InitCache /\ IdleRun /\ InitSession /\ IdleBundle /\ IdleExec /\ IdleWorld
SpecExtract == InitOfExtract /\ [][NextExtract]_vars

\* The mode agents behind the recommendation cache.
InitOfCachedAgent == IdleAgent /\ InitCache /\ IdleExtract /\ IdleGateway /\ IdleParser /\ IdleDb /\ IdleMon /\ IdleWl /\ InitChat /\ IdleRun /\ InitSession /\ IdleBundle /\ IdleExec /\ IdleWorld
SpecCachedAgent == InitOfCachedAgent /\ [][NextCachedAgent]_vars

\* The bundle agent on search results and model replies.
InitOfBundle == IdleBundle /\ IdleAgent /\ InitCache /\ IdleExtract /\ IdleGateway /\ IdleParser /\ IdleDb /\ IdleMon /\ IdleWl /\ InitChat /\ IdleRun /\ InitSession /\ IdleExec /\ IdleWorld
SpecBundle == InitOfBundle /\ [][NextBundle]_vars

\* Overlapping executions of the monitoring body over one stored item.
InitOfOverlap == InitOverlapDb /\ IdleExec /\ IdleMon /\ IdleWl /\ InitChat /\ InitCache /\ IdleRun /\ InitSession /\ IdleParser /\ IdleAgent /\ IdleGateway /\ IdleExtract /\ IdleBundle /\ IdleWorld
SpecOverlap == InitOfOverlap /\ [][NextOverlap]_vars

\* The periodic job over one stored item while time passes: the job keeps running
\* (IntervalTrigger(hours=6)), the channels work in the end, time passes.
InitOfRecheck == InitRecheck /\ IdleExec /\ IdleMon /\ IdleWl /\ InitChat /\ InitCache /\ IdleRun /\ InitSession /\ IdleParser /\ IdleAgent /\ IdleGateway /\ IdleExtract /\ IdleBundle
SpecRecheck ==
    /\ InitOfRecheck
    /\ [][NextRecheck]_vars
    /\ WF_vars(ScheduledCheck)
    /\ WF_vars(ChannelRepair)
    /\ WF_vars(DayPasses)

Init == InitOfChat
Next == NextChat
Spec == SpecChat

====
